---- MODULE Spec2Model ----
(***************************************************************************)
(* KrillinAI subtitle pipeline: the per-task orchestrator goroutine of     *)
(* StartSubtitleTask, the fan-out workers of audioToSrt, the task record   *)
(* in storage.SubtitleTasks and a concurrent GetTaskStatus reader.         *)
(***************************************************************************)
EXTENDS Integers, Sequences, FiniteSets, TLC

\* ------------------------------------------------------------------ bounds
MaxSeg == 2
MaxP == 2
LLMAnswers == 5

\* ------------------------------------------------------- program constants
AsrAttempts == 3
LlmAttempts == 4
LenTolerance == 200
ShortTextLen == 10

VARIABLES
    Status,          \* SubtitleTask.Status
    FailReason,      \* SubtitleTask.FailReason
    ProcessPct,      \* SubtitleTask.ProcessPct (uint8)
    SubtitleInfos,   \* len(SubtitleTask.SubtitleInfos)
    opc,             \* position of the orchestrator goroutine
    taskErr,         \* err of StartSubtitleTask's goroutine, "" = nil
    stages,          \* stages the orchestrator has started, in order
    EnableTts,       \* stepParam.EnableTts
    P,               \* config.Conf.App.TranslateParallelNum
    N,               \* len(stepParam.SmallAudios)
    stepInfos,       \* len(stepParam.SubtitleInfos)
    next,            \* index of the next segment the spawn loop handles
    sem,             \* len(parallelControlChan)
    stepNum,         \* stepNum of audioToSrt
    err,             \* err of audioToSrt, shared by every worker closure
    cancelled,       \* ctx.Done() is closed
    egErr,           \* first non-nil error kept by the errgroup, "" = none
    w,               \* per segment: the worker goroutine and its SmallAudio
    rpc,             \* position of the GetTaskStatus reader
    rStatus,         \* Status the reader saw
    rPct,            \* ProcessPct the reader saw
    rInfos,          \* number of descriptors the reader saw
    g                \* one run of generateTimestamps or srtFileToSpeech by itself

vars == <<Status, FailReason, ProcessPct, SubtitleInfos, opc, taskErr, stages,
          EnableTts, P, N, stepInfos, next, sem, stepNum, err, cancelled,
          egErr, w, rpc, rStatus, rPct, rInfos, g>>

taskVars == <<Status, FailReason, ProcessPct, SubtitleInfos>>
orchVars == <<opc, taskErr, stages, EnableTts, P, N, stepInfos, next>>
groupVars == <<sem, stepNum, err, cancelled, egErr, w>>
readerVars == <<rpc, rStatus, rPct, rInfos>>
unitVars == <<g>>

Segs == 1..MaxSeg

StageOrder == <<"acquire", "fanout", "assemble", "tts", "embed", "publish">>

\* ---------------------------------------------------------------- payloads
\* A text is its byte length after TrimSpace.  An LLM payload is the list of
\* its lines after TrimSpace: [k |-> "int"] parses with strconv.Atoi,
\* [k |-> "blank"] is empty, [k |-> "text", len |-> n] is any other line of
\* n bytes once "[" and "]" are stripped, [k |-> "sentinel"] holds the
\* no-text marker.
IntLine == [k |-> "int", len |-> 1]
BlankLine == [k |-> "blank", len |-> 0]
TextLine(n) == [k |-> "text", len |-> n]
SentinelLine == [k |-> "sentinel", len |-> 5]

Abs(x) == IF x < 0 THEN -x ELSE x

RECURSIVE OriginalLen(_, _)
\* the loop of isValidSplitContent from line index i: <<format ok, number of
\* blocks found, summed length of the collected original lines>>
OriginalLen(lines, i) ==
    IF i > Len(lines) THEN <<TRUE, 0, 0>>
    ELSE IF lines[i].k = "blank" THEN OriginalLen(lines, i + 1)
    ELSE IF lines[i].k = "int"
         THEN IF i + 2 > Len(lines) THEN <<FALSE, 0, 0>>
              ELSE LET rest == OriginalLen(lines, i + 3)
                   IN <<rest[1], rest[2] + 1, rest[3] + lines[i + 2].len>>
    ELSE OriginalLen(lines, i + 1)

HasSentinel(lines) == \E i \in 1..Len(lines) : lines[i].k = "sentinel"

isValidSplitContent(splitContent, originalText) ==
    IF splitContent = <<>> \/ originalText = 0
    THEN splitContent = <<>> /\ originalText = 0
    ELSE IF HasSentinel(splitContent)
    THEN originalText = 0 \/ originalText < ShortTextLen
    ELSE IF Len(splitContent) < 3 THEN FALSE
    ELSE LET r == OriginalLen(splitContent, 1)
         IN /\ r[1]
            /\ r[2] > 0
            /\ Abs(originalText - r[3]) <= LenTolerance

\* -------------------------------------------------- splitTextAndTranslate
\* What ChatCompletion returns to one attempt: (content, err).
CallErr == [err |-> TRUE, content |-> <<>>]
Payload(lines) == [err |-> FALSE, content |-> lines]
Answers ==
    { CallErr,
      Payload(<<IntLine, TextLine(3), TextLine(300)>>),
      Payload(<<IntLine, TextLine(3), TextLine(501)>>),
      Payload(<<SentinelLine>>) }

\* The scripted replies of the LLM: reply a until attempt k, reply b from it.
Scripts ==
    { [n \in 1..LLMAnswers |-> IF n < k THEN a ELSE b] :
        k \in 1..(LLMAnswers + 1), a \in Answers, b \in Answers }

TextLens == {0, 300}

\* A retry loop that took any reply that is not an error, unvalidated.
AttemptErr_unvalidated(a, text) == a.err

\* One pass of the retry loop, the reply already in hand: the returned
\* content is kept and err is nil exactly when the reply validated.
AttemptErr(a, text) ==
    IF a.err THEN TRUE ELSE ~isValidSplitContent(a.content, text)

RECURSIVE RetryLoop(_, _, _)
\* for i := 0; i < 4; i++ of splitTextAndTranslate, from attempt i (1-based):
\* [calls, err, content] at the loop's exit
RetryLoop(script, text, i) ==
    IF AttemptErr(script[i], text) /\ i < LlmAttempts
    THEN RetryLoop(script, text, i + 1)
    ELSE [calls |-> i, err |-> AttemptErr(script[i], text),
          content |-> script[i].content]

\* splitTextAndTranslate: [calls, err, written], written = "none" when no
\* file is written, else whether the written content validates; wrote is
\* whether os.WriteFile succeeds.
splitTextAndTranslate(script, text, wrote) ==
    IF text = 0 THEN [calls |-> 0, err |-> TRUE, written |-> "none"]
    ELSE LET r == RetryLoop(script, text, 1)
         IN IF r.err \/ ~wrote
            THEN [calls |-> r.calls, err |-> TRUE, written |-> "none"]
            ELSE [calls |-> r.calls, err |-> FALSE,
                  written |-> IF isValidSplitContent(r.content, text)
                              THEN "valid" ELSE "invalid"]

\* ------------------------------------------------------------ task record
uint8(x) == x % 256

\* processPct := uint8(20 + 70*stepNum/(len(stepParam.SmallAudios)*2))
processPct(step, n) == uint8(20 + (70 * step) \div (n * 2))

\* ----------------------------------------------------------------- workers
Worker0 ==
    [pc |-> "idle", calls |-> 0, asrErrs |-> 0, td |-> -1, pct |-> 0,
     llmCalls |-> 0, split |-> "", noTs |-> "none", bil |-> FALSE,
     res |-> "", panicked |-> FALSE]

IsErr(r) == r \notin {"", "nil"}

Running(i) == w[i].pc \notin {"idle", "done"}

\* The worker function returns r: the deferred function frees the slot, and
\* the errgroup keeps the first non-nil error and cancels its context.
Return(i, r, panic) ==
    /\ w' = [w EXCEPT ![i].pc = "done", ![i].res = r, ![i].panicked = panic,
                      ![i].calls = 0, ![i].asrErrs = 0, ![i].pct = 0,
                      ![i].llmCalls = 0]
    /\ sem' = sem - 1
    /\ egErr' = IF IsErr(r) /\ egErr = "" THEN r ELSE egErr
    /\ cancelled' = (cancelled \/ IsErr(r))

\* select { case <-ctx.Done(): return ctx.Err(); default: }
W_check(i) ==
    /\ w[i].pc = "check"
    /\ IF cancelled
       THEN /\ Return(i, "context canceled", FALSE)
            /\ UNCHANGED <<stepNum, err>>
       ELSE /\ w' = [w EXCEPT ![i].pc = "asr"]
            /\ UNCHANGED <<sem, stepNum, err, cancelled, egErr>>
    /\ UNCHANGED <<taskVars, orchVars, readerVars, unitVars>>

\* transcriptionData, err = s.Transcriber.Transcription(...)
W_asr(i) ==
    /\ w[i].pc = "asr"
    /\ \E t \in TextLens \cup {-1} :
         /\ w' = [w EXCEPT ![i].pc = "asrChk",
                           ![i].calls = @ + 1,
                           ![i].asrErrs = IF t = -1 THEN @ + 1 ELSE @,
                           ![i].td = t]
         /\ err' = (t = -1)
    /\ UNCHANGED <<sem, stepNum, cancelled, egErr>>
    /\ UNCHANGED <<taskVars, orchVars, readerVars, unitVars>>

\* if err == nil { break }; i++; i < 3
W_asrChk(i) ==
    /\ w[i].pc = "asrChk"
    /\ w' = [w EXCEPT ![i].pc = IF err /\ w[i].calls < AsrAttempts
                                THEN "asr" ELSE "asrPost"]
    /\ UNCHANGED <<sem, stepNum, err, cancelled, egErr>>
    /\ UNCHANGED <<taskVars, orchVars, readerVars, unitVars>>

\* if err != nil { cancel(); return }; transcriptionData.Text; stepNum++
W_asrPost(i) ==
    /\ w[i].pc = "asrPost"
    /\ IF err
       THEN /\ Return(i, "Transcription err", FALSE)
            /\ cancelled' = TRUE
            /\ UNCHANGED <<stepNum, err>>
       ELSE IF w[i].td = -1
       THEN /\ Return(i, "nil", TRUE)
            /\ UNCHANGED <<stepNum, err>>
       ELSE /\ stepNum' = stepNum + 1
            /\ w' = [w EXCEPT ![i].pc = "pub1",
                              ![i].calls = 0, ![i].asrErrs = 0,
                              ![i].pct = processPct(stepNum + 1, N)]
            /\ UNCHANGED <<sem, err, cancelled, egErr>>
    /\ UNCHANGED <<taskVars, orchVars, readerVars, unitVars>>

\* storage.SubtitleTasks[stepParam.TaskId].ProcessPct = processPct
Publish(i) == ProcessPct' = w[i].pct

W_pub1(i) ==
    /\ w[i].pc = "pub1"
    /\ Publish(i)
    /\ w' = [w EXCEPT ![i].pc = "split", ![i].pct = 0]
    /\ UNCHANGED <<Status, FailReason, SubtitleInfos>>
    /\ UNCHANGED <<sem, stepNum, err, cancelled, egErr>>
    /\ UNCHANGED <<orchVars, readerVars, unitVars>>

\* err = s.splitTextAndTranslate(...); a panic inside it (an empty Choices
\* list of the stream response) is recovered by the deferred function.
W_split(i) ==
    /\ w[i].pc = "split"
    /\ \/ /\ \E script \in Scripts, wrote \in BOOLEAN :
               LET r == splitTextAndTranslate(script, w[i].td, wrote)
               IN /\ w' = [w EXCEPT ![i].pc = "splitChk",
                                    ![i].llmCalls = r.calls,
                                    ![i].split = IF ~r.err THEN "ok"
                                                 ELSE IF r.calls = 0
                                                 THEN "empty"
                                                 ELSE IF RetryLoop(script, w[i].td, 1).err
                                                 THEN "failed" ELSE "unwritten",
                                    ![i].noTs = r.written]
                  /\ err' = r.err
          /\ UNCHANGED <<sem, cancelled, egErr>>
       \/ /\ w[i].td # 0
          /\ Return(i, "nil", TRUE)
          /\ UNCHANGED err
    /\ UNCHANGED stepNum
    /\ UNCHANGED <<taskVars, orchVars, readerVars, unitVars>>

\* if err != nil { cancel(); return }; stepNum++
W_splitChk(i) ==
    /\ w[i].pc = "splitChk"
    /\ IF err
       THEN /\ Return(i, "splitTextAndTranslate err", FALSE)
            /\ cancelled' = TRUE
            /\ UNCHANGED <<stepNum, err>>
       ELSE /\ stepNum' = stepNum + 1
            /\ w' = [w EXCEPT ![i].pc = "pub2", ![i].llmCalls = 0,
                              ![i].pct = processPct(stepNum + 1, N)]
            /\ UNCHANGED <<sem, err, cancelled, egErr>>
    /\ UNCHANGED <<taskVars, orchVars, readerVars, unitVars>>

W_pub2(i) ==
    /\ w[i].pc = "pub2"
    /\ Publish(i)
    /\ w' = [w EXCEPT ![i].pc = "retime", ![i].pct = 0]
    /\ UNCHANGED <<Status, FailReason, SubtitleInfos>>
    /\ UNCHANGED <<sem, stepNum, err, cancelled, egErr>>
    /\ UNCHANGED <<orchVars, readerVars, unitVars>>

\* err = s.generateTimestamps(...): os.Open fails without a no-timestamp
\* file; "early" is a return before any per-segment SRT is created; a panic
\* (words[0] of an empty word list) is recovered by the deferred function.
W_retime(i) ==
    /\ w[i].pc = "retime"
    /\ IF w[i].noTs = "none"
       THEN /\ w' = [w EXCEPT ![i].pc = "retChk"]
            /\ err' = TRUE
            /\ UNCHANGED <<sem, cancelled, egErr>>
       ELSE \/ /\ \E o \in {"ok", "early", "err"} :
                    /\ w' = [w EXCEPT ![i].pc = "retChk",
                                      ![i].bil = (o = "ok")]
                    /\ err' = (o = "err")
               /\ UNCHANGED <<sem, cancelled, egErr>>
            \/ /\ Return(i, "nil", TRUE)
               /\ UNCHANGED err
    /\ UNCHANGED stepNum
    /\ UNCHANGED <<taskVars, orchVars, readerVars, unitVars>>

\* if err != nil { cancel(); return }; return nil
W_retChk(i) ==
    /\ w[i].pc = "retChk"
    /\ IF err
       THEN /\ Return(i, "generateTimestamps err", FALSE)
            /\ cancelled' = TRUE
       ELSE Return(i, "nil", FALSE)
    /\ UNCHANGED <<stepNum, err>>
    /\ UNCHANGED <<taskVars, orchVars, readerVars, unitVars>>

Worker(i) ==
    \/ W_check(i)
    \/ W_asr(i)
    \/ W_asrChk(i)
    \/ W_asrPost(i)
    \/ W_pub1(i)
    \/ W_split(i)
    \/ W_splitChk(i)
    \/ W_pub2(i)
    \/ W_retime(i)
    \/ W_retChk(i)

\* ------------------------------------------------------------ orchestrator
Outcomes == {"ok", "err", "panic"}

\* A goroutine that logged a stage's error and went on to publish.
Fail_continue(e) ==
    /\ taskErr' = e
    /\ opc' = "uploadSubtitles"

\* A stage returned e: the goroutine is about to mark the task failed.
Fail(e) ==
    /\ taskErr' = e
    /\ opc' = "fail_status"

\* defer func() { if r := recover(); r != nil { ... Status = Failed } }()
Recover ==
    /\ Status' = "Failed"
    /\ opc' = "done"

Start(stage) == stages' = Append(stages, stage)

\* A stage call with nothing but its result: ok moves on after publishing
\* pct (0 = no progress write), err fails the task, panic is recovered.
Step(o, e, to, pct) ==
    /\ o = "ok" =>
         /\ opc' = to
         /\ ProcessPct' = IF pct = 0 THEN ProcessPct ELSE pct
         /\ UNCHANGED <<Status, taskErr>>
    /\ o = "err" =>
         /\ Fail(e)
         /\ UNCHANGED <<Status, ProcessPct>>
    /\ o = "panic" =>
         /\ Recover
         /\ UNCHANGED <<ProcessPct, taskErr>>

O_linkToFile ==
    /\ opc = "linkToFile"
    /\ Start("acquire")
    /\ ProcessPct' = 3
    /\ opc' = "link_audio"
    /\ UNCHANGED <<Status, FailReason, SubtitleInfos, taskErr>>
    /\ UNCHANGED <<EnableTts, P, N, stepInfos, next, groupVars, readerVars, unitVars>>

O_link_audio ==
    /\ opc = "link_audio"
    /\ \E o \in Outcomes : Step(o, "linkToFile error", "link_video", 6)
    /\ UNCHANGED <<FailReason, SubtitleInfos, stages>>
    /\ UNCHANGED <<EnableTts, P, N, stepInfos, next, groupVars, readerVars, unitVars>>

O_link_video ==
    /\ opc = "link_video"
    /\ \E o \in Outcomes : Step(o, "linkToFile error", "splitAudio", 10)
    /\ UNCHANGED <<FailReason, SubtitleInfos, stages>>
    /\ UNCHANGED <<EnableTts, P, N, stepInfos, next, groupVars, readerVars, unitVars>>

\* splitAudio: n = 0 is a glob without files, n = -1 a failed ffmpeg run
O_splitAudio ==
    /\ opc = "splitAudio"
    /\ Start("fanout")
    /\ \E n \in -1..MaxSeg :
         IF n <= 0
         THEN /\ Fail("audioToSubtitle splitAudio error")
              /\ UNCHANGED <<N, ProcessPct>>
         ELSE /\ N' = n
              /\ ProcessPct' = 20
              /\ opc' = "audioToSrt"
              /\ UNCHANGED taskErr
    /\ UNCHANGED <<Status, FailReason, SubtitleInfos>>
    /\ UNCHANGED <<EnableTts, P, stepInfos, next, groupVars, readerVars, unitVars>>

\* A send that never blocks: a fan-out without the semaphore.
CanSend_unbounded == TRUE

\* parallelControlChan <- struct{}{} blocks while the channel is full
CanSend == sem < P

\* parallelControlChan <- struct{}{}; eg.Go(func() error {...})
O_spawn ==
    /\ opc = "audioToSrt"
    /\ next <= N
    /\ CanSend
    /\ sem' = sem + 1
    /\ w' = [w EXCEPT ![next].pc = "check"]
    /\ next' = next + 1
    /\ UNCHANGED <<taskVars, opc, taskErr, stages, EnableTts, P, N, stepInfos>>
    /\ UNCHANGED <<stepNum, err, cancelled, egErr, readerVars, unitVars>>

\* if err = eg.Wait(); err != nil { return }
O_Wait ==
    /\ opc = "audioToSrt"
    /\ next > N
    /\ \A i \in 1..N : w[i].pc = "done"
    /\ IF egErr # ""
       THEN Fail("audioToSubtitle audioToSrt error")
       ELSE /\ opc' = "MergeFile"
            /\ UNCHANGED taskErr
    /\ cancelled' = TRUE
    /\ err' = (egErr # "")
    /\ UNCHANGED <<taskVars, stages, EnableTts, P, N, stepInfos, next>>
    /\ UNCHANGED <<sem, stepNum, egErr, w, readerVars, unitVars>>

\* util.MergeFile(originNoTsFile, originNoTsFiles...) concatenates the
\* per-segment files: it opens every one of them, and fails on a missing one
MergeFileOutcomes ==
    IF \A i \in 1..N : w[i].noTs # "none" THEN {"ok", "err"} ELSE {"err"}

O_MergeFile ==
    /\ opc = "MergeFile"
    /\ \E o \in MergeFileOutcomes :
         Step(o, "audioToSubtitle audioToSrt error", "MergeSrtFiles", 0)
    /\ UNCHANGED <<FailReason, SubtitleInfos, stages>>
    /\ UNCHANGED <<EnableTts, P, N, stepInfos, next, groupVars, readerVars, unitVars>>

\* util.MergeSrtFiles(final, files...) passes over a segment that left no
\* timed file (a segment without text has none, and the pipeline proceeds)
MergeSrtFilesOutcomes == {"ok", "err"}

\* util.MergeSrtFiles of the three timed files, then ProcessPct = 90
O_MergeSrtFiles ==
    /\ opc = "MergeSrtFiles"
    /\ \E o \in MergeSrtFilesOutcomes :
         Step(o, "audioToSubtitle audioToSrt error", "splitSrt", 90)
    /\ UNCHANGED <<FailReason, SubtitleInfos, stages>>
    /\ UNCHANGED <<EnableTts, P, N, stepInfos, next, groupVars, readerVars, unitVars>>

\* A splitSrt that appended the descriptor of the origin language only with a
\* translation asked for.
O_splitSrt_targetOnly ==
    /\ opc = "splitSrt"
    /\ Start("assemble")
    /\ \E o \in Outcomes :
         /\ Step(o, "audioToSubtitle splitSrt error", "srtFileToSpeech", 95)
         /\ IF o = "ok"
            THEN \E k \in 0..2 : stepInfos' = k
            ELSE UNCHANGED stepInfos
    /\ UNCHANGED <<FailReason, SubtitleInfos>>
    /\ UNCHANGED <<EnableTts, P, N, next, groupVars, readerVars, unitVars>>

\* splitSrt appends one to three descriptors; then ProcessPct = 95
O_splitSrt ==
    /\ opc = "splitSrt"
    /\ Start("assemble")
    /\ \E o \in Outcomes :
         /\ Step(o, "audioToSubtitle splitSrt error", "srtFileToSpeech", 95)
         /\ IF o = "ok"
            THEN \E k \in 1..3 : stepInfos' = k
            ELSE UNCHANGED stepInfos
    /\ UNCHANGED <<FailReason, SubtitleInfos>>
    /\ UNCHANGED <<EnableTts, P, N, next, groupVars, readerVars, unitVars>>

\* stepParam.TtsSourceFilePath: splitSrt sets it to the bilingual file where
\* it appends the third, bilingual, subtitle info, and nothing else sets it
TtsSourceFilePath == IF stepInfos = 3 THEN "bilingual" ELSE ""

\* parseSRT reads TtsSourceFilePath first: os.ReadFile fails on the empty path
O_srtFileToSpeech ==
    /\ opc = "srtFileToSpeech"
    /\ Start("tts")
    /\ IF ~EnableTts
       THEN Step("ok", "", "embedSubtitles", 0)
       ELSE \E o \in Outcomes :
              /\ TtsSourceFilePath = "" => o = "err"
              /\ Step(o, "srtFileToSpeech error", "embedSubtitles", 98)
    /\ UNCHANGED <<FailReason, SubtitleInfos>>
    /\ UNCHANGED <<EnableTts, P, N, stepInfos, next, groupVars, readerVars, unitVars>>

O_embedSubtitles ==
    /\ opc = "embedSubtitles"
    /\ Start("embed")
    /\ \E o \in Outcomes :
         Step(o, "embedSubtitles error", "uploadSubtitles", 0)
    /\ UNCHANGED <<FailReason, SubtitleInfos>>
    /\ UNCHANGED <<EnableTts, P, N, stepInfos, next, groupVars, readerVars, unitVars>>

\* uploadSubtitles up to storage.SubtitleTasks[...].SubtitleInfos = ...
O_uploadSubtitles ==
    /\ opc = "uploadSubtitles"
    /\ Start("publish")
    /\ \E o \in {"ok", "err"} :
         /\ Step(o, "uploadSubtitles ReplaceFileContent err", "upload_status", 0)
         /\ SubtitleInfos' = IF o = "ok" THEN stepInfos ELSE SubtitleInfos
    /\ UNCHANGED FailReason
    /\ UNCHANGED <<EnableTts, P, N, stepInfos, next, groupVars, readerVars, unitVars>>

\* storage.SubtitleTasks[...].Status = types.SubtitleTaskStatusSuccess
O_upload_status ==
    /\ opc = "upload_status"
    /\ Status' = "Success"
    /\ opc' = "upload_pct"
    /\ UNCHANGED <<FailReason, ProcessPct, SubtitleInfos, taskErr, stages>>
    /\ UNCHANGED <<EnableTts, P, N, stepInfos, next, groupVars, readerVars, unitVars>>

\* A publish step that reported an error after it had marked the success.
O_upload_pct_then_fail ==
    /\ opc = "upload_pct"
    /\ ProcessPct' = 100
    /\ opc' = "fail_status"
    /\ UNCHANGED <<Status, FailReason, SubtitleInfos, taskErr, stages>>
    /\ UNCHANGED <<EnableTts, P, N, stepInfos, next, groupVars, readerVars, unitVars>>

\* storage.SubtitleTasks[...].ProcessPct = 100; return nil
O_upload_pct ==
    /\ opc = "upload_pct"
    /\ ProcessPct' = 100
    /\ opc' = "done"
    /\ UNCHANGED <<Status, FailReason, SubtitleInfos, taskErr, stages>>
    /\ UNCHANGED <<EnableTts, P, N, stepInfos, next, groupVars, readerVars, unitVars>>

\* storage.SubtitleTasks[...].Status = types.SubtitleTaskStatusFailed
O_fail_status ==
    /\ opc = "fail_status"
    /\ Status' = "Failed"
    /\ opc' = "fail_reason"
    /\ UNCHANGED <<FailReason, ProcessPct, SubtitleInfos, taskErr, stages>>
    /\ UNCHANGED <<EnableTts, P, N, stepInfos, next, groupVars, readerVars, unitVars>>

\* storage.SubtitleTasks[...].FailReason = err.Error(); return
O_fail_reason ==
    /\ opc = "fail_reason"
    /\ FailReason' = taskErr
    /\ opc' = "done"
    /\ UNCHANGED <<Status, ProcessPct, SubtitleInfos, taskErr, stages>>
    /\ UNCHANGED <<EnableTts, P, N, stepInfos, next, groupVars, readerVars, unitVars>>

Orchestrator ==
    \/ O_linkToFile
    \/ O_link_audio
    \/ O_link_video
    \/ O_splitAudio
    \/ O_spawn
    \/ O_Wait
    \/ O_MergeFile
    \/ O_MergeSrtFiles
    \/ O_splitSrt
    \/ O_srtFileToSpeech
    \/ O_embedSubtitles
    \/ O_uploadSubtitles
    \/ O_upload_status
    \/ O_upload_pct
    \/ O_fail_status
    \/ O_fail_reason

\* ------------------------------------------------------------------ reader
\* GetTaskStatus: if task.Status == Failed { return error }
R_status ==
    /\ rpc = "idle"
    /\ rStatus' = Status
    /\ rpc' = IF Status = "Failed" THEN "done" ELSE "pct"
    /\ UNCHANGED <<rPct, rInfos, taskVars, orchVars, groupVars, unitVars>>

\* ProcessPercent: task.ProcessPct
R_pct ==
    /\ rpc = "pct"
    /\ rPct' = ProcessPct
    /\ rpc' = "infos"
    /\ UNCHANGED <<rStatus, rInfos, taskVars, orchVars, groupVars, unitVars>>

\* SubtitleInfo: lo.Map(task.SubtitleInfos, ...)
R_infos ==
    /\ rpc = "infos"
    /\ rInfos' = SubtitleInfos
    /\ rpc' = "done"
    /\ UNCHANGED <<rStatus, rPct, taskVars, orchVars, groupVars, unitVars>>

Reader ==
    \/ R_status
    \/ R_pct
    \/ R_infos

\* ---------------------------------------------------------- specifications
\* The record StartSubtitleTask stores and the goroutine it starts, with
\* translate_parallel_num one of parallel.
TaskInitWith(parallel) ==
    /\ Status = "Processing"
    /\ FailReason = ""
    /\ ProcessPct = 0
    /\ SubtitleInfos = 0
    /\ opc = "linkToFile"
    /\ taskErr = ""
    /\ stages = <<>>
    /\ EnableTts \in BOOLEAN
    /\ P \in parallel
    /\ N = 0
    /\ stepInfos = 0
    /\ next = 1
    /\ sem = 0
    /\ stepNum = 0
    /\ err = FALSE
    /\ cancelled = FALSE
    /\ egErr = ""
    /\ w = [i \in Segs |-> Worker0]
    /\ rpc = "idle"
    /\ rStatus = ""
    /\ rPct = 0
    /\ rInfos = 0

\* The task with a translate_parallel_num of at least one.
TaskInit == TaskInitWith(1..MaxP)

\* generateTimestamps before it is called
Idle == [pc |-> "idle"]

Init == TaskInit /\ g = Idle

Next ==
    \/ Orchestrator
    \/ \E i \in Segs : Worker(i)

Spec == Init /\ [][Next]_vars

\* A task and one GetTaskStatus query running beside it, the fan-out with
\* one worker at a time (the translate_parallel_num that the fasterwhisper
\* provider forces).
InitQuery == Init /\ P = 1

NextQuery ==
    \/ Orchestrator
    \/ \E i \in Segs : Worker(i)
    \/ Reader

SpecQuery == InitQuery /\ [][NextQuery]_vars

\* The task with every translate_parallel_num that LoadConfig accepts and
\* make(chan struct{}, n) takes: nothing tests the number that the
\* configuration file or KRILLIN_TRANSLATE_PARALLEL_NUM gives, so 0 is one of
\* them.  Every goroutine runs when it can.
InitConfig == TaskInitWith(0..MaxP) /\ g = Idle

SpecConfig == InitConfig /\ [][Next]_vars /\ WF_vars(Next)

\* -------------------------------------------------------------- FormatTime
\* Times are whole milliseconds: a word's Start is float64(BeginTime) / 1000.
RECURSIVE Pow2(_)
Pow2(n) == IF n = 0 THEN 1 ELSE 2 * Pow2(n - 1)

RECURSIVE Log2(_)
\* floor(log2(n)), n >= 1
Log2(n) == IF n < 2 THEN 0 ELSE 1 + Log2(n \div 2)

RECURSIVE Shift24(_, _)
\* the j with 2^23 <= (ms / 1000) * 2^(j + 3) < 2^24, ms / 125 scaled by 2^j
Shift24(ms, j) ==
    IF ms * Pow2(j) >= 125 * Pow2(23) THEN j ELSE Shift24(ms, j + 1)

\* float32(seconds) of ms / 1000: the 24-bit mantissa m (round to nearest)
\* and the scale j, the value being m / 2^(j + 3)
float32(ms) ==
    LET j == Shift24(ms, 0)
        n == ms * Pow2(j)
    IN [m |-> (n \div 125) + (IF 2 * (n % 125) > 125 THEN 1 ELSE 0), j |-> j]

\* util.FormatTime(float32(ms / 1000)), read back as milliseconds:
\* totalSeconds := floor(seconds);
\* milliseconds := int((seconds - float32(totalSeconds)) * 1000), the
\* product rounded to float32 and then truncated.
FormatTime(ms) ==
    IF ms = 0 THEN 0
    ELSE LET f == float32(ms)
             whole == f.j + 3 <= 24
             totalSeconds == IF whole THEN f.m \div Pow2(f.j + 3) ELSE 0
             a == IF whole THEN f.m % Pow2(f.j + 3) ELSE f.m
             num == 125 * a
             den == Pow2(f.j)
             fl == num \div den
             gap == den - (num % den)
             up == /\ num % den # 0
                   /\ Log2(num) >= 24
                   /\ gap <= Pow2(Log2(num) - 24)
         IN totalSeconds * 1000 + (IF up THEN fl + 1 ELSE fl)

\* ---------------------------------------------------- getSentenceTimestamps
\* A text is a sequence of letters; a letter is a non-zero integer and -c is
\* the other case of c.  A types.Word is [Num, Text, Start, End], Num its
\* index in the transcription (from 0), Start and End in milliseconds.
Abs1(s) == [k \in 1..Len(s) |-> Abs(s[k])]

\* strings.EqualFold
EqualFold(a, b) == Abs1(a) = Abs1(b)

\* strings.HasPrefix
HasPrefix(a, b) == Len(a) >= Len(b) /\ \A k \in 1..Len(b) : a[k] = b[k]

\* types.Word{Text: sentenceWord}: a word that was not found
Placeholder(text) == [Num |-> 0, Text |-> text, Start |-> 0, End |-> 0]

RECURSIVE FirstMatch(_, _, _, _)
\* the search that takes the first word of that text, wherever it starts
FirstMatch_anyStart(words, sentenceWord, thisLastTs, idx) ==
    IF idx > Len(words) THEN idx
    ELSE IF EqualFold(words[idx].Text, sentenceWord)
         THEN idx
         ELSE FirstMatch(words, sentenceWord, thisLastTs, idx + 1)

\* the search of one sentence word from words[idx - 1]: the index (from 1)
\* of the first word of that text that starts at or after thisLastTs, or
\* Len(words) + 1
FirstMatch(words, sentenceWord, thisLastTs, idx) ==
    IF idx > Len(words) THEN idx
    ELSE IF /\ EqualFold(words[idx].Text, sentenceWord)
            /\ words[idx].Start >= thisLastTs
         THEN idx
         ELSE FirstMatch(words, sentenceWord, thisLastTs, idx + 1)

\* sentenceWords after the matching loop of the word-based languages
MatchWords(words, sentenceWordList, thisLastTs) ==
    [k \in 1..Len(sentenceWordList) |->
        LET idx == FirstMatch(words, sentenceWordList[k], thisLastTs, 1)
        IN IF idx > Len(words) THEN Placeholder(sentenceWordList[k])
           ELSE words[idx]]

RECURSIVE MaxRun(_, _, _, _, _, _)
\* the loop of findMaxIncreasingSubArray at i (from 0)
MaxRun(ws, i, maxStart, maxLen, currStart, currLen) ==
    IF i >= Len(ws)
    THEN IF currLen > maxLen THEN <<currStart, currStart + currLen>>
         ELSE <<maxStart, maxStart + maxLen>>
    ELSE IF ws[i + 1].Num = ws[i].Num + 1
    THEN MaxRun(ws, i + 1, maxStart, maxLen, currStart, currLen + 1)
    ELSE IF currLen > maxLen
    THEN MaxRun(ws, i + 1, currStart, currLen, i, 1)
    ELSE MaxRun(ws, i + 1, maxStart, maxLen, i, 1)

\* <<begin, end>>, indices from 0, end exclusive
findMaxIncreasingSubArray(ws) ==
    IF Len(ws) = 0 THEN <<0, 0>> ELSE MaxRun(ws, 1, 0, 1, 0, 1)

RECURSIVE ExtendBack(_, _, _, _, _)
\* for i, j := beginWordIndex-1, beginWord.Num-1; i >= 0 && j >= 0; { ... }
ExtendBack(words, sw, beginWord, i, j) ==
    IF i < 0 \/ j < 0 THEN [sw |-> sw, word |-> beginWord]
    ELSE IF words[j + 1].Text = <<>>
    THEN ExtendBack(words, sw, beginWord, i, j - 1)
    ELSE IF EqualFold(words[j + 1].Text, sw[i + 1].Text)
    THEN ExtendBack(words, [sw EXCEPT ![i + 1] = words[j + 1]],
                    words[j + 1], i - 1, j - 1)
    ELSE [sw |-> sw, word |-> beginWord]

RECURSIVE ExtendForward(_, _, _, _, _)
\* for i, j := endWordIndex, endWord.Num+1; i < len(sentenceWords) &&
\* j < len(words); { ... }
ExtendForward(words, sw, endWord, i, j) ==
    IF i >= Len(sw) \/ j >= Len(words) THEN [sw |-> sw, word |-> endWord]
    ELSE IF words[j + 1].Text = <<>>
    THEN ExtendForward(words, sw, endWord, i, j + 1)
    ELSE IF EqualFold(words[j + 1].Text, sw[i + 1].Text)
    THEN ExtendForward(words, [sw EXCEPT ![i + 1] = words[j + 1]],
                       words[j + 1], i + 1, j + 1)
    ELSE [sw |-> sw, word |-> endWord]

\* what getSentenceTimestamps returns: (srtSt, sentenceWords, ts, err), or
\* a panic
Timed(start, end, sw, ts) ==
    [err |-> FALSE, panic |-> FALSE, Start |-> start, End |-> end,
     sw |-> sw, ts |-> ts]
Failed(sw) ==
    [err |-> TRUE, panic |-> FALSE, Start |-> 0, End |-> 0, sw |-> sw,
     ts |-> 0]
Panicked ==
    [err |-> FALSE, panic |-> TRUE, Start |-> 0, End |-> 0, sw |-> <<>>,
     ts |-> 0]

\* the branch of English, German, Turkish and Russian
WordTimestamps(words, sentenceWordList, lastTs) ==
    IF Len(sentenceWordList) = 0 THEN Failed(<<>>)
    ELSE IF Len(words) = 0 THEN Panicked
    ELSE
    LET sw0 == MatchWords(words, sentenceWordList, lastTs)
        run == findMaxIncreasingSubArray(sw0)
        beginWordIndex == run[1]
        endWordIndex == run[2]
        beginWord0 == sw0[beginWordIndex + 1]
        endWord0 == sw0[endWordIndex]
        back == IF beginWordIndex > 0
                THEN ExtendBack(words, sw0, beginWord0, beginWordIndex - 1,
                                beginWord0.Num - 1)
                ELSE [sw |-> sw0, word |-> beginWord0]
        fwd == IF endWordIndex < Len(sw0)
               THEN ExtendForward(words, back.sw, endWord0, endWordIndex,
                                  endWord0.Num + 1)
               ELSE [sw |-> back.sw, word |-> endWord0]
        sw == fwd.sw
        first == sw[1]
        last == sw[Len(sw)]
        beginWord == IF /\ back.word.Num > first.Num
                        /\ back.word.Num - first.Num < 10
                     THEN first ELSE back.word
        endWord == IF /\ last.Num > fwd.word.Num
                      /\ last.Num - fwd.word.Num < 10
                   THEN last ELSE fwd.word
    IN IF endWordIndex - beginWordIndex = 0 THEN Failed(sw0)
       ELSE IF endWordIndex - beginWordIndex = Len(sw0)
       THEN Timed(beginWord0.Start, endWord0.End, sw0, endWord0.End)
       ELSE Timed(IF beginWord.Start < lastTs THEN lastTs
                  ELSE beginWord.Start,
                  endWord.End, sw,
                  IF beginWord.Num # endWord.Num /\ endWord.End > lastTs
                  THEN endWord.End ELSE lastTs)

RECURSIVE CharMatches(_, _, _, _)
\* the words appended for the letters of the sentence from letter k on:
\* every word that is the letter or begins with it and starts at or after
\* thisLastTs
CharMatches(words, sentenceWordList, thisLastTs, k) ==
    IF k > Len(sentenceWordList) THEN <<>>
    ELSE SelectSeq(words,
                   LAMBDA x : /\ \/ EqualFold(x.Text, sentenceWordList[k])
                                 \/ HasPrefix(x.Text, sentenceWordList[k])
                              /\ x.Start >= thisLastTs)
         \o CharMatches(words, sentenceWordList, thisLastTs, k + 1)

RECURSIVE Dp(_, _)
\* dp[i] and prev[i] of jumpFindMaxIncreasingSubArray, i from 0
Dp(ws, i) ==
    LET J == {j \in 0..(i - 1) : ws[i + 1].Num = ws[j + 1].Num + 1}
        best == CHOOSE n \in {Dp(ws, j).len : j \in J} :
                    \A j \in J : Dp(ws, j).len <= n
    IN IF J = {} THEN [len |-> 1, prev |-> -1]
       ELSE [len |-> best + 1,
             prev |-> CHOOSE j \in J :
                        /\ Dp(ws, j).len = best
                        /\ \A h \in J : Dp(ws, h).len = best => j <= h]

RECURSIVE ChainStart(_, _)
\* for prev[startIdx] != -1 { startIdx = prev[startIdx] }
ChainStart(ws, i) ==
    IF Dp(ws, i).prev = -1 THEN i ELSE ChainStart(ws, Dp(ws, i).prev)

\* <<startIdx, endIdx, result>>: result is built by a loop that starts at
\* startIdx, whose prev is -1, so it holds words[startIdx] alone
jumpFindMaxIncreasingSubArray(ws) ==
    IF Len(ws) <= 1 THEN <<-1, -1, <<>>>>
    ELSE LET maxLen == CHOOSE n \in {Dp(ws, i).len : i \in 1..(Len(ws) - 1)} :
                         \A i \in 1..(Len(ws) - 1) : Dp(ws, i).len <= n
             endIdx == CHOOSE i \in 1..(Len(ws) - 1) :
                         /\ Dp(ws, i).len = maxLen
                         /\ \A h \in 1..(Len(ws) - 1) :
                              Dp(ws, h).len = maxLen => i <= h
             startIdx == ChainStart(ws, endIdx)
         IN <<startIdx, endIdx, <<ws[startIdx + 1]>>>>

\* the branch of the languages read letter by letter
CharTimestamps(words, sentenceWordList, lastTs) ==
    IF Len(sentenceWordList) = 0 THEN Failed(<<>>)
    ELSE IF Len(words) = 0 THEN Panicked
    ELSE
    LET sw == CharMatches(words, sentenceWordList, lastTs, 1)
        found == jumpFindMaxIncreasingSubArray(sw)
        beginWord == sw[found[1] + 1]
        endWord == sw[found[2] + 1]
    IN IF found[2] - found[1] = 0 THEN Failed(found[3])
       ELSE Timed(IF beginWord.Start < lastTs THEN lastTs
                  ELSE beginWord.Start,
                  endWord.End, found[3],
                  IF beginWord.Num # endWord.Num /\ endWord.End > lastTs
                  THEN endWord.End ELSE lastTs)

getSentenceTimestamps(words, sentenceWordList, lastTs, language) ==
    IF language = "word"
    THEN WordTimestamps(words, sentenceWordList, lastTs)
    ELSE CharTimestamps(words, sentenceWordList, lastTs)

\* ------------------------------------------------------- generateTimestamps
\* config.Conf.App.SegmentDuration, in minutes
SegmentDuration == 5

\* float64(SegmentDuration) * 60 * float64(audioFile.Num-1), in milliseconds
tsOffset(num) == SegmentDuration * 60 * 1000 * (num - 1)

\* fmt.Sprintf("%s --> %s", util.FormatTime(...), util.FormatTime(...)); the
\* empty Timestamp of a block that was never timed is <<>>
Stamp(start, end, offset) ==
    <<FormatTime(start + offset), FormatTime(end + offset)>>

\* the width with every quotient rounded up
thisLineWord_ceil(L, W) ==
    IF L > W /\ L <= 2 * W THEN ((L + 1) \div 2) + 1
    ELSE IF L > 2 * W /\ L <= 3 * W THEN ((L + 2) \div 3) + 1
    ELSE IF L > 3 * W /\ L <= 4 * W THEN ((L + 3) \div 4) + 1
    ELSE IF L > 4 * W /\ L <= 5 * W THEN ((L + 4) \div 5) + 1
    ELSE W

\* thisLineWord, for a sentence of more than originLanguageWordOneLine words
thisLineWord(L, W) ==
    IF L > W /\ L <= 2 * W THEN (L \div 2) + 1
    ELSE IF L > 2 * W /\ L <= 3 * W THEN (L \div 3) + 1
    ELSE IF L > 3 * W /\ L <= 4 * W THEN (L \div 4) + 1
    ELSE IF L > 4 * W /\ L <= 5 * W THEN (L \div 5) + 1
    ELSE W

\* var startWord, endWord types.Word; originSentence string
ZeroWord == [Num |-> 0, Text |-> <<>>, Start |-> 0, End |-> 0]
SplitStart ==
    [i |-> 1, nextStart |-> TRUE, startWord |-> ZeroWord,
     endWord |-> ZeroWord, originSentence |-> <<>>, out |-> <<>>]

Max2(a, b) == IF a < b THEN b ELSE a
Min2(a, b) == IF a < b THEN a ELSE b

\* one pass of "for _, word := range sentenceWords"
SplitWord(st, word, sentenceTs, lastTs, width, offset) ==
    LET text == Append(st.originSentence, word.Text)
        startWord == [word EXCEPT !.Start =
                        Max2(Max2(Max2(word.Start, lastTs), st.endWord.End),
                             sentenceTs.Start)]
        endWord0 == IF st.endWord.End < word.End THEN word ELSE st.endWord
        endWord == [endWord0 EXCEPT !.End = Min2(@, sentenceTs.End)]
    IN IF st.nextStart
       THEN IF startWord.End > sentenceTs.End
            THEN [st EXCEPT !.startWord = startWord, !.originSentence = text]
            ELSE [st EXCEPT !.startWord = startWord, !.originSentence = text,
                            !.endWord = startWord, !.i = @ + 1,
                            !.nextStart = FALSE]
       ELSE IF st.i % width = 0 /\ st.i > 1
            THEN [st EXCEPT !.endWord = endWord, !.originSentence = <<>>,
                            !.nextStart = TRUE, !.i = @ + 1,
                            !.out = Append(@,
                               [Timestamp |-> Stamp(st.startWord.Start,
                                                    endWord.End, offset),
                                OriginLanguageSentence |-> text])]
            ELSE [st EXCEPT !.endWord = endWord, !.originSentence = text,
                            !.i = @ + 1]

RECURSIVE SplitLoop(_, _, _, _, _, _, _)
\* the loop from the n-th word on; s is the value of the locals after it
SplitLoop(st, sw, n, sentenceTs, lastTs, width, offset) ==
    IF n > Len(sw) THEN st
    ELSE CHOOSE end \in
            {SplitLoop(s, sw, n + 1, sentenceTs, lastTs, width, offset) :
                s \in {SplitWord(st, sw[n], sentenceTs, lastTs, width,
                                 offset)}} : TRUE

\* shortOriginSrtMap[srtBlock.Index] after the sentence
ShortBlocks(sentence, r, lastTs, W, offset) ==
    IF Len(r.sw) <= W
    THEN <<[Timestamp |-> Stamp(r.Start, r.End, offset),
            OriginLanguageSentence |-> sentence]>>
    ELSE LET st == SplitLoop(SplitStart, r.sw, 1, r, lastTs,
                             thisLineWord(Len(r.sw), W), offset)
         IN IF st.originSentence # <<>>
            THEN Append(st.out,
                   [Timestamp |-> Stamp(st.startWord.Start, st.endWord.End,
                                        offset),
                    OriginLanguageSentence |-> st.originSentence])
            ELSE st.out

RECURSIVE Flatten(_)
Flatten(ss) == IF ss = <<>> THEN <<>> ELSE Head(ss) \o Flatten(Tail(ss))

\* the blocks of a file, numbered by a counter from 1
Numbered(entries) ==
    [n \in 1..Len(entries) |->
        [Index |-> n, Timestamp |-> entries[n].Timestamp,
         Text |-> entries[n].Text]]

\* the bilingual file: one block per srtBlock, under the block's own Index
BilingualFile(u) ==
    [k \in 1..Len(u.sentences) |->
        [Index |-> k, Timestamp |-> u.Timestamp[k],
         Text |-> <<"both", k>>]]

\* the mixed file: for every srtBlock the target sentence, then its short
\* blocks
MixedFile(u) ==
    Numbered(Flatten(
        [k \in 1..Len(u.sentences) |->
            <<[Timestamp |-> u.Timestamp[k], Text |-> <<"target", k>>]>> \o
            [n \in 1..Len(u.shortOriginSrtMap[k]) |->
                [Timestamp |-> u.shortOriginSrtMap[k][n].Timestamp,
                 Text |-> <<"origin", k, n>>]]]))

\* the short origin file: the short blocks alone
ShortFile(u) ==
    Numbered(Flatten(
        [k \in 1..Len(u.sentences) |->
            [n \in 1..Len(u.shortOriginSrtMap[k]) |->
                [Timestamp |-> u.shortOriginSrtMap[k][n].Timestamp,
                 Text |-> <<"origin", k, n>>]]]))

\* os.Open of the file without timestamps, its first line, and
\* ParseSrtNoTsToSrtBlock.  A file of no sentence holds the no-text marker
\* or no block at all; g.open is the set of files open and not closed.
G_open ==
    /\ g.pc = "open"
    /\ \E opened \in BOOLEAN, marker \in BOOLEAN :
          /\ marker => opened /\ g.sentences = <<>>
          /\ g' = IF ~opened THEN [g EXCEPT !.pc = "returned", !.res = "open err"]
                  ELSE IF marker
                  THEN [g EXCEPT !.pc = "returned", !.res = "nil",
                                 !.open = {"srtNoTsFile"}]
                  ELSE IF g.sentences = <<>>
                  THEN [g EXCEPT !.pc = "returned", !.res = "nil"]
                  ELSE [g EXCEPT !.pc = "loop"]
    /\ UNCHANGED <<taskVars, orchVars, groupVars, readerVars>>

\* one pass of "for _, srtBlock := range srtBlocks"
G_sentence ==
    /\ g.pc = "loop"
    /\ g.k <= Len(g.sentences)
    /\ \E sentence \in {g.sentences[g.k]}, offset \in {tsOffset(g.Num)},
          r \in {getSentenceTimestamps(g.words, g.sentences[g.k], g.lastTs,
                                       g.language)} :
          g' = IF sentence = <<>> THEN [g EXCEPT !.k = @ + 1]
               ELSE IF r.panic THEN [g EXCEPT !.pc = "panic"]
               ELSE IF r.err \/ r.ts < g.lastTs THEN [g EXCEPT !.k = @ + 1]
               ELSE [g EXCEPT !.k = @ + 1,
                              !.Timestamp[g.k] = Stamp(r.Start, r.End, offset),
                              !.span[g.k] = <<r.Start, r.End>>,
                              !.shortOriginSrtMap[g.k] =
                                  ShortBlocks(sentence, r, g.lastTs, g.W,
                                              offset),
                              !.lastTs = r.ts]
    /\ UNCHANGED <<taskVars, orchVars, groupVars, readerVars>>

\* the three os.Create calls and the two writing loops; on return the
\* deferred calls close finalBilingualSrtFile and, twice, srtShortOriginMixedFile
G_write ==
    /\ g.pc = "loop"
    /\ g.k > Len(g.sentences)
    /\ \E failed \in {"none", "bilingual", "mixed", "short"} :
          g' = IF failed = "bilingual"
               THEN [g EXCEPT !.pc = "returned", !.res = "create err"]
               ELSE IF failed \in {"mixed", "short"}
               THEN [g EXCEPT !.pc = "returned", !.res = "create err",
                              !.created = {"bilingual"} \cup
                                  (IF failed = "short" THEN {"mixed"} ELSE {}),
                              !.bilingual = BilingualFile(g)]
               ELSE [g EXCEPT !.pc = "returned", !.res = "nil",
                              !.open = {"srtShortOriginFile"},
                              !.created = {"bilingual", "mixed", "short"},
                              !.bilingual = BilingualFile(g),
                              !.mixed = MixedFile(g),
                              !.short = ShortFile(g)]
    /\ UNCHANGED <<taskVars, orchVars, groupVars, readerVars>>

\* the inputs of one run: the transcription of the segment, the sentences of
\* its file without timestamps, the language, the words per line and the
\* number of the segment
MaxWords == 2
MaxSent == 2
MaxSentLen == 2
MaxNum == 2
MaxLong == 13
WordMs == 650
WordTexts == {<<1>>, <<-1>>, <<2>>, <<1, 2>>}
SentTexts == {<<1>>, <<2>>, <<3>>}
LineWords == {1, 2}
LongLineWords == {2, 12}

SeqsUpTo(S, n) == UNION {[1..m -> S] : m \in 0..n}

\* the words startResultReceiver collects: Num from 0, one after the other
AsrWords(texts) ==
    [k \in 1..Len(texts) |->
        [Num |-> k - 1, Text |-> texts[k], Start |-> (k - 1) * WordMs,
         End |-> k * WordMs]]

Unit(words, sentences, language, W, num) ==
    [pc |-> "open", words |-> words, sentences |-> sentences,
     language |-> language, W |-> W, Num |-> num, k |-> 1, lastTs |-> 0,
     Timestamp |-> [k \in 1..Len(sentences) |-> <<>>],
     span |-> [k \in 1..Len(sentences) |-> <<>>],
     shortOriginSrtMap |-> [k \in 1..Len(sentences) |-> <<>>],
     created |-> {}, bilingual |-> <<>>, mixed |-> <<>>, short |-> <<>>,
     open |-> {}, res |-> "none"]

SmallUnits ==
    {Unit(AsrWords(texts), sentences, language, W, num) :
        texts \in SeqsUpTo(WordTexts, MaxWords),
        sentences \in SeqsUpTo(SeqsUpTo(SentTexts, MaxSentLen), MaxSent),
        language \in {"word", "char"}, W \in LineWords, num \in 1..MaxNum}

\* one sentence of L different words, every one of them recognised in order
LongUnits ==
    {Unit(AsrWords([k \in 1..L |-> <<k>>]), <<[k \in 1..L |-> <<k>>]>>,
          "word", W, 1) :
        L \in 1..MaxLong, W \in LongLineWords}

InitRetime ==
    /\ TaskInit
    /\ P = 1
    /\ EnableTts = FALSE
    /\ g \in SmallUnits \cup LongUnits

NextRetime == G_open \/ G_sentence \/ G_write

SpecRetime == InitRetime /\ [][NextRetime]_vars

\* ---------------------------------------------------------- srtFileToSpeech
\* One run of srtFileToSpeech with TTS enabled, over the blocks parseSRT
\* returns: g.subtitles holds their Start and End in milliseconds, g.i counts
\* the blocks done, g.slots holds the duration handed to
\* adjustAudioDuration for each of them and g.audioFiles the files to
\* concatenate with their lengths in microseconds.
MaxSubs == 3
SubTimes == {0, 300, 1000, 60000}

\* the lengths in ms of the speech Text2Speech returns
AudioLens == {200, 1000}

\* the duration taken to the next start whether or not the block ends before
SlotDuration_next(subtitles, i) ==
    IF i < Len(subtitles)
    THEN subtitles[i + 1].Start - subtitles[i].Start
    ELSE subtitles[i].End - subtitles[i].Start

\* duration, as computed for block i (from 1) before adjustAudioDuration
SlotDuration(subtitles, i) ==
    IF i < Len(subtitles) /\ subtitles[i].End < subtitles[i + 1].Start
    THEN subtitles[i + 1].Start - subtitles[i].Start
    ELSE subtitles[i].End - subtitles[i].Start

\* parseSRT, os.Create of the duration details file and the voice clone
T_parse ==
    /\ g.pc = "parse"
    /\ \E o \in {"ok", "err"} :
          g' = IF o = "ok" THEN [g EXCEPT !.pc = "blocks"]
               ELSE [g EXCEPT !.pc = "returned", !.res = "err"]
    /\ UNCHANGED <<taskVars, orchVars, groupVars, readerVars>>

\* startTime.Second(): the seconds within the minute of a time of day
Second(ms) == (ms \div 1000) % 60

\* fmt.Sprintf("atempo=%.2f", audioDuration / subtitleDuration), in
\* hundredths
Atempo(audio, slot) == (200 * audio + slot) \div (2 * slot)

\* the length in microseconds of the file adjustAudioDuration leaves for a
\* speech of audio ms in a slot of slot ms: the speech and a silence of the
\* difference, the speech played at the atempo speed, or a copy
AdjustedLength(audio, slot) ==
    IF audio < slot THEN 1000 * slot
    ELSE IF audio > slot THEN (100000 * audio) \div Atempo(audio, slot)
    ELSE 1000 * audio

\* audioFiles after the silence before the first block: startTime minus
\* 00:00:00, if the seconds of startTime are not 0
WithLeadingSilence(audioFiles, i, startTime) ==
    IF i = 0 /\ Second(startTime) > 0
    THEN Append(audioFiles, [kind |-> "silence", us |-> 1000 * startTime])
    ELSE audioFiles

\* one pass of "for i, sub := range subtitles": Text2Speech with a speech
\* of audio ms, the silence before the first block, the duration,
\* adjustAudioDuration and GetAudioDuration; ffmpeg refuses the atempo of a
\* slot that is not positive
T_block ==
    /\ g.pc = "blocks"
    /\ g.i < Len(g.subtitles)
    /\ \E o \in {"ok", "Text2Speech err", "newGenerateSilence err",
                 "adjustAudioDuration err"},
          audio \in AudioLens,
          slot \in {SlotDuration(g.subtitles, g.i + 1)} :
          /\ o = "newGenerateSilence err" =>
                g.i = 0 /\ Second(g.subtitles[1].Start) > 0
          /\ o = "ok" => slot > 0
          /\ o \in {"Text2Speech err", "newGenerateSilence err"} =>
                audio = CHOOSE a \in AudioLens : TRUE
          /\ g' = IF o \in {"Text2Speech err", "newGenerateSilence err"}
                  THEN [g EXCEPT !.pc = "returned", !.res = "err"]
                  ELSE IF o = "adjustAudioDuration err"
                  THEN [g EXCEPT !.pc = "returned", !.res = "err",
                                 !.slots = Append(@, slot),
                                 !.audioFiles =
                                     WithLeadingSilence(@, g.i,
                                         g.subtitles[g.i + 1].Start)]
                  ELSE [g EXCEPT !.i = @ + 1,
                                 !.slots = Append(@, slot),
                                 !.audioFiles =
                                     Append(WithLeadingSilence(@, g.i,
                                                g.subtitles[g.i + 1].Start),
                                            [kind |-> "adjusted",
                                             us |-> AdjustedLength(audio,
                                                                   slot)])]
    /\ UNCHANGED <<taskVars, orchVars, groupVars, readerVars>>

\* concatenateAudioFiles
T_concat ==
    /\ g.pc = "blocks"
    /\ g.i = Len(g.subtitles)
    /\ \E o \in {"nil", "err"} : g' = [g EXCEPT !.pc = "returned", !.res = o]
    /\ UNCHANGED <<taskVars, orchVars, groupVars, readerVars>>

TtsUnits ==
    {[pc |-> "parse", subtitles |-> subtitles, i |-> 0, slots |-> <<>>,
      audioFiles |-> <<>>, res |-> "none"] :
        subtitles \in SeqsUpTo([Start : SubTimes, End : SubTimes], MaxSubs)}

InitTts ==
    /\ TaskInit
    /\ P = 1
    /\ EnableTts = TRUE
    /\ g \in TtsUnits

NextTts == T_parse \/ T_block \/ T_concat

SpecTts == InitTts /\ [][NextTts]_vars

\* ----------------------------------------------------------- embedSubtitles
\* One run of embedSubtitles: g.video is the size of the input video,
\* g.width and g.height what getResolution returned (0, 0 after an error,
\* which is not looked at), g.rendered the burn-ins done so far.
VideoSides == {720, 1080, 1920}
EmbedTypes == {"horizontal", "vertical", "all", "none"}

\* the test of EmbedSubtitleVideoType and getResolution
E_getResolution ==
    /\ g.pc = "embed"
    /\ \E read \in BOOLEAN :
          g' = IF g.type \notin {"horizontal", "vertical", "all"}
               THEN [g EXCEPT !.pc = "returned", !.res = "nil"]
               ELSE IF read
               THEN [g EXCEPT !.pc = "horizontal", !.width = g.video.w,
                              !.height = g.video.h]
               ELSE [g EXCEPT !.pc = "horizontal"]
    /\ UNCHANGED <<taskVars, orchVars, groupVars, readerVars>>

\* the branch of "horizontal" and "all"
E_horizontal ==
    /\ g.pc = "horizontal"
    /\ \E o \in {"ok", "err"} :
          g' = IF g.type \notin {"horizontal", "all"}
               THEN [g EXCEPT !.pc = "vertical"]
               ELSE IF g.width < g.height
               THEN [g EXCEPT !.pc = "returned", !.res = "nil"]
               ELSE IF o = "err"
               THEN [g EXCEPT !.pc = "returned", !.res = "err"]
               ELSE [g EXCEPT !.pc = "vertical",
                              !.rendered = @ \cup {"horizontal"}]
    /\ UNCHANGED <<taskVars, orchVars, groupVars, readerVars>>

\* the branch of "vertical" and "all": convertToVertical for a wide video,
\* then the burn-in
E_vertical ==
    /\ g.pc = "vertical"
    /\ \E o \in {"ok", "convertToVertical err", "embedSubtitles err"} :
          /\ o = "convertToVertical err" =>
                g.type \in {"vertical", "all"} /\ g.width > g.height
          /\ g' = IF g.type \notin {"vertical", "all"}
                  THEN [g EXCEPT !.pc = "returned", !.res = "nil"]
                  ELSE IF o = "ok"
                  THEN [g EXCEPT !.pc = "returned", !.res = "nil",
                                 !.converted = g.width > g.height,
                                 !.rendered = @ \cup {"vertical"}]
                  ELSE [g EXCEPT !.pc = "returned", !.res = "err",
                                 !.converted = g.width > g.height /\
                                               o = "embedSubtitles err"]
    /\ UNCHANGED <<taskVars, orchVars, groupVars, readerVars>>

EmbedUnits ==
    {[pc |-> "embed", type |-> type, video |-> [w |-> vw, h |-> vh],
      width |-> 0, height |-> 0, converted |-> FALSE, rendered |-> {},
      res |-> "none"] :
        type \in EmbedTypes, vw \in VideoSides, vh \in VideoSides}

InitEmbed ==
    /\ TaskInit
    /\ P = 1
    /\ EnableTts = FALSE
    /\ g \in EmbedUnits

NextEmbed == E_getResolution \/ E_horizontal \/ E_vertical

SpecEmbed == InitEmbed /\ [][NextEmbed]_vars

\* ------------------------------------------------- parseSrtTime, formatTimestamp
\* An SRT time "hh:mm:ss,mmm" is the record of its four numbers, an ASS time
\* "hh:mm:ss.cc" the record of its four numbers, a time.Duration a number of
\* milliseconds.
SrtTimes ==
    [h : {0, 1}, m : {0, 1, 59}, s : {0, 59}, ms : {0, 5, 10, 456, 990, 999}]

\* parseSrtTime
parseSrtTime(t) == t.h * 3600000 + t.m * 60000 + t.s * 1000 + t.ms

\* the hundredths rounded to the nearest and not cut
formatTimestamp_rounded(d) ==
    [h |-> d \div 3600000, m |-> (d \div 60000) % 60, s |-> (d \div 1000) % 60,
     cs |-> ((d % 1000) + 5) \div 10]

\* formatTimestamp
formatTimestamp(d) ==
    [h |-> d \div 3600000, m |-> (d \div 60000) % 60, s |-> (d \div 1000) % 60,
     cs |-> (d % 1000) \div 10]

\* the time an ASS time stands for, in milliseconds
AssTime(a) == a.h * 3600000 + a.m * 60000 + a.s * 1000 + a.cs * 10

\* srtToAss parses the start and end of a block
A_parse ==
    /\ g.pc = "srt"
    /\ g' = [g EXCEPT !.pc = "parsed", !.duration = parseSrtTime(g.srt)]
    /\ UNCHANGED <<taskVars, orchVars, groupVars, readerVars>>

\* srtToAss writes them into the Dialogue line
A_format ==
    /\ g.pc = "parsed"
    /\ g' = [g EXCEPT !.pc = "ass", !.ass = formatTimestamp(g.duration)]
    /\ UNCHANGED <<taskVars, orchVars, groupVars, readerVars>>

\* the Dialogue line is read back
A_read ==
    /\ g.pc = "ass"
    /\ g' = [g EXCEPT !.pc = "read", !.back = AssTime(g.ass)]
    /\ UNCHANGED <<taskVars, orchVars, groupVars, readerVars>>

InitAss ==
    /\ TaskInit
    /\ P = 1
    /\ EnableTts = FALSE
    /\ g \in {[pc |-> "srt", srt |-> t, duration |-> 0,
               ass |-> [h |-> 0, m |-> 0, s |-> 0, cs |-> 0], back |-> 0] :
                 t \in SrtTimes}

NextAss == A_parse \/ A_format \/ A_read

SpecAss == InitAss /\ [][NextAss]_vars

\* ------------------------------------------------------------- Transcription
\* One Transcription of the Aliyun recogniser: the caller and the goroutine
\* of startResultReceiver, which meet on the unbuffered channels taskStarted
\* and taskDone.  g.events is what the server still has to say: task-started
\* after run-task, result-generated after the audio, task-finished after
\* finish-task, task-failed at any time.
MaxResults == 2

AsrResults == SeqsUpTo({"partial", "sentence"}, MaxResults)

AsrEvents ==
    {h \o r \o <<e>> : h \in {<<>>, <<"task-started">>}, r \in AsrResults,
                       e \in {"task-finished", "task-failed"}}

\* the server has been given what the next event answers
Answered(e) ==
    CASE e = "task-started" -> g.pc # "run-task"
      [] e \in {"partial", "sentence"} -> g.pc \notin {"run-task", "wait", "audio"}
      [] e = "task-finished" -> g.pc \in {"done", "returned"}
      [] OTHER -> TRUE

\* sendRunTaskCmd: an error is logged and the run goes on
sendRunTaskCmd ==
    /\ g.pc = "run-task"
    /\ \E failed \in BOOLEAN :
         g' = [g EXCEPT !.pc = "wait",
                        !.logged = IF failed THEN @ \cup {"run-task"} ELSE @]
    /\ UNCHANGED <<taskVars, orchVars, groupVars, readerVars>>

\* waitForTaskStarted, case <-taskStarted: the receiver's send is taken
waitForTaskStarted_started ==
    /\ g.pc = "wait"
    /\ g.receiver = "taskStarted <- true"
    /\ g' = [g EXCEPT !.pc = "audio", !.receiver = "ReadMessage"]
    /\ UNCHANGED <<taskVars, orchVars, groupVars, readerVars>>

\* the receiver's loop: ReadMessage, the words of a finished sentence, handleEvent
ReadMessage ==
    /\ g.receiver = "ReadMessage"
    /\ g.events # <<>>
    /\ Answered(Head(g.events))
    /\ LET e == Head(g.events) IN
         g' = [g EXCEPT
                 !.events = Tail(@),
                 !.words = IF e = "sentence" THEN @ + 1 ELSE @,
                 !.last = IF e \in {"task-finished", "task-failed"} THEN e ELSE @,
                 !.receiver = CASE e = "task-started" -> "taskStarted <- true"
                                [] e \in {"task-finished", "task-failed"} -> "taskDone <- true"
                                [] OTHER -> "ReadMessage"]
    /\ UNCHANGED <<taskVars, orchVars, groupVars, readerVars>>

\* waitForTaskStarted, case <-time.After(10 * time.Second): nothing was sent
\* on taskStarted for ten seconds
waitForTaskStarted_timeout ==
    /\ g.pc = "wait"
    /\ g.receiver # "taskStarted <- true"
    /\ g' = [g EXCEPT !.pc = "audio", !.timedOut = TRUE]
    /\ UNCHANGED <<taskVars, orchVars, groupVars, readerVars>>

\* sendAudioData: an error is logged and the run goes on
sendAudioData ==
    /\ g.pc = "audio"
    /\ \E failed \in BOOLEAN :
         g' = [g EXCEPT !.pc = "finish",
                        !.logged = IF failed THEN @ \cup {"audio"} ELSE @]
    /\ UNCHANGED <<taskVars, orchVars, groupVars, readerVars>>

\* sendFinishTaskCmd: an error is logged and the run goes on
sendFinishTaskCmd ==
    /\ g.pc = "finish"
    /\ \E failed \in BOOLEAN :
         g' = [g EXCEPT !.pc = "done",
                        !.logged = IF failed THEN @ \cup {"finish-task"} ELSE @]
    /\ UNCHANGED <<taskVars, orchVars, groupVars, readerVars>>

\* <-taskDone: the receiver's send is taken, the receiver returns and
\* Transcription returns the words: return transcriptionData, nil
Transcription_done ==
    /\ g.pc = "done"
    /\ g.receiver = "taskDone <- true"
    /\ g' = [g EXCEPT !.pc = "returned", !.receiver = "returned", !.ret = "nil"]
    /\ UNCHANGED <<taskVars, orchVars, groupVars, readerVars>>

InitAsr ==
    /\ TaskInit
    /\ P = 1
    /\ EnableTts = FALSE
    /\ g \in {[pc |-> "run-task", receiver |-> "ReadMessage", events |-> ev,
               words |-> 0, timedOut |-> FALSE, logged |-> {}, last |-> "none",
               ret |-> "none"] : ev \in AsrEvents}

NextAsr ==
    \/ sendRunTaskCmd
    \/ waitForTaskStarted_started
    \/ waitForTaskStarted_timeout
    \/ ReadMessage
    \/ sendAudioData
    \/ sendFinishTaskCmd
    \/ Transcription_done

\* the caller and the receiver goroutine both run when they can
SpecAsr == InitAsr /\ [][NextAsr]_vars /\ WF_vars(NextAsr)

\* ------------------------------------------------ isValidSplitContent alone
\* A number line with its value: strconv.Atoi takes "0" and "-1" as it
\* takes "1".
MaxLines == 4

NumberLine(v) == [k |-> "int", len |-> 1, v |-> v]

PayloadLines ==
    {NumberLine(1), NumberLine(0), NumberLine(-1), BlankLine,
     [k |-> "text", len |-> 3, v |-> 0], [k |-> "sentinel", len |-> 5, v |-> 0]}

OriginalTexts == {0, 3, 300}

V_validate ==
    /\ g.pc = "payload"
    /\ g' = [g EXCEPT !.pc = "validated",
                      !.valid = isValidSplitContent(g.splitContent, g.originalText)]
    /\ UNCHANGED <<taskVars, orchVars, groupVars, readerVars>>

InitValid ==
    /\ TaskInit
    /\ P = 1
    /\ EnableTts = FALSE
    /\ g \in {[pc |-> "payload", splitContent |-> c, originalText |-> t, valid |-> FALSE] :
                c \in SeqsUpTo(PayloadLines, MaxLines), t \in OriginalTexts}

NextValid == V_validate

SpecValid == InitValid /\ [][NextValid]_vars

\* ------------------------------------------ jumpFindMaxIncreasingSubArray alone
MaxCollected == 4
MaxCollectedNum == 3

\* the collected words of a sentence: only Num is read
Collected ==
    {[n \in 1..Len(nums) |->
         [Num |-> nums[n], Text |-> <<1>>, Start |-> nums[n] * WordMs,
          End |-> (nums[n] + 1) * WordMs]] :
        nums \in SeqsUpTo(0..MaxCollectedNum, MaxCollected)}

\* beginWordIndex, endWordIndex, readableSentenceWords :=
\*     jumpFindMaxIncreasingSubArray(sentenceWords)
J_find ==
    /\ g.pc = "collected"
    /\ g' = [g EXCEPT !.pc = "found",
                      !.found = jumpFindMaxIncreasingSubArray(g.sentenceWords)]
    /\ UNCHANGED <<taskVars, orchVars, groupVars, readerVars>>

InitJump ==
    /\ TaskInit
    /\ P = 1
    /\ EnableTts = FALSE
    /\ g \in {[pc |-> "collected", sentenceWords |-> ws, found |-> <<-1, -1, <<>>>>] :
                ws \in Collected}

NextJump == J_find

SpecJump == InitJump /\ [][NextJump]_vars

\* --------------------------------------------- srtToAss, the vertical layout
\* One block of the SRT file whose text has no alphabetic character.  A
\* character is a number, 0 a punctuation mark; times are in milliseconds.
MaxWordLine == 10
BlockTimes == {0, 5, 650, 1000, 2000}
ContentLens == {1, 10, 11, 25}

Contents ==
    {[k \in 1..L |-> IF marks /\ k % 5 = 0 THEN 0 ELSE k] :
        L \in ContentLens, marks \in BOOLEAN}

\* splitChineseText
splitChineseText(text, maxWordLine) ==
    [c \in 1..((Len(text) + maxWordLine - 1) \div maxWordLine) |->
        SubSeq(text, (c - 1) * maxWordLine + 1,
               IF c * maxWordLine > Len(text) THEN Len(text)
               ELSE c * maxWordLine)]

RECURSIVE CleanPunction(_)
\* util.CleanPunction: strings.TrimFunc(word, unicode.IsPunct)
CleanPunction(word) ==
    IF word = <<>> THEN <<>>
    ELSE IF Head(word) = 0 THEN CleanPunction(Tail(word))
    ELSE IF word[Len(word)] = 0 THEN CleanPunction(SubSeq(word, 1, Len(word) - 1))
    ELSE word

\* time.Duration(float64(i) * float64(totalTime) / float64(n)), cut to a whole
\* number towards zero, in the milliseconds that formatTimestamp reads
Prorated(i, totalTime, n) ==
    IF totalTime >= 0 THEN (i * totalTime) \div n
    ELSE -((i * (-totalTime) + n - 1) \div n)

\* the Dialogue line of chunk i (from 0) of n
ChunkDialogue(startTime, endTime, lines, i) ==
    LET iStart == startTime + Prorated(i, endTime - startTime, Len(lines))
        iEnd0 == startTime + Prorated(i + 1, endTime - startTime, Len(lines))
        iEnd == IF iEnd0 > endTime THEN endTime ELSE iEnd0
    IN [Start |-> formatTimestamp(iStart), End |-> formatTimestamp(iEnd),
        line |-> lines[i + 1], Text |-> CleanPunction(lines[i + 1])]

\* the branch "if !util.ContainsAlphabetic(content)" for one block
A_vertical ==
    /\ g.pc = "block"
    /\ \E chineseLines \in {splitChineseText(g.content, MaxWordLine)} :
         g' = [g EXCEPT !.pc = "written",
                        !.dialogues =
                            [n \in 1..Len(chineseLines) |->
                                ChunkDialogue(g.startTime, g.endTime,
                                              chineseLines, n - 1)]]
    /\ UNCHANGED <<taskVars, orchVars, groupVars, readerVars>>

InitVertical ==
    /\ TaskInit
    /\ P = 1
    /\ EnableTts = FALSE
    /\ g \in {[pc |-> "block", startTime |-> s, endTime |-> e, content |-> c,
               dialogues |-> <<>>] :
                s \in BlockTimes, e \in BlockTimes, c \in Contents}

NextVertical == A_vertical

SpecVertical == InitVertical /\ [][NextVertical]_vars

\* --------------------------------------------------------- StartSubtitleTask
\* One request from its validation to the end of the goroutine it starts.
\* The five stage calls of the goroutine appear with their results alone.
StageCalls ==
    <<"linkToFile", "audioToSubtitle", "srtFileToSpeech", "embedSubtitles",
      "uploadSubtitles">>

Requests ==
    [Url : {"valid", "invalid"}, TtsVoiceCloneSrcFileUrl : {"", "local:voice.wav"},
     TtsVoiceCode : {"longyu", "other"}, Tts : BOOLEAN]

\* 1. the checks of req.Url
S_validate ==
    /\ g.pc = "validate"
    /\ g' = IF g.req.Url = "invalid"
            THEN [g EXCEPT !.pc = "returned", !.ret = "err"]
            ELSE [g EXCEPT !.pc = "register"]
    /\ UNCHANGED <<taskVars, orchVars, groupVars, readerVars>>

\* 6. storage.SubtitleTasks[taskId] = &types.SubtitleTask{... Processing}
\* and 7. the voice code
S_register ==
    /\ g.pc = "register"
    /\ g' = [g EXCEPT !.pc = "voiceClone", !.registered = TRUE,
                      !.Status = "Processing",
                      !.ttsVoiceCode = IF g.req.TtsVoiceCode = "longyu"
                                       THEN "longyu" ELSE "longchen"]
    /\ UNCHANGED <<taskVars, orchVars, groupVars, readerVars>>

\* 8. s.OssClient.UploadFile of the voice clone source, when one is given
S_voiceClone ==
    /\ g.pc = "voiceClone"
    /\ \E uploaded \in BOOLEAN :
         /\ g.req.TtsVoiceCloneSrcFileUrl = "" => uploaded
         /\ g' = IF uploaded THEN [g EXCEPT !.pc = "go"]
                 ELSE [g EXCEPT !.pc = "returned", !.ret = "err"]
    /\ UNCHANGED <<taskVars, orchVars, groupVars, readerVars>>

\* 10. go func() { ... }() and 11. return the task id
S_go ==
    /\ g.pc = "go"
    /\ g' = [g EXCEPT !.pc = "returned", !.ret = "taskId", !.stage = 1]
    /\ UNCHANGED <<taskVars, orchVars, groupVars, readerVars>>

\* one stage call of the goroutine: nil goes on (uploadSubtitles has set
\* Success), an error sets Failed and FailReason, a panic is recovered and
\* sets Failed
S_stage ==
    /\ g.stage \in 1..Len(StageCalls)
    /\ \E o \in Outcomes :
         g' = IF o = "ok"
              THEN [g EXCEPT !.stage = IF @ = Len(StageCalls) THEN 0 ELSE @ + 1,
                             !.Status = IF g.stage = Len(StageCalls)
                                        THEN "Success" ELSE @]
              ELSE IF o = "err"
              THEN [g EXCEPT !.stage = 0, !.Status = "Failed",
                             !.FailReason = StageCalls[g.stage]]
              ELSE [g EXCEPT !.stage = 0, !.Status = "Failed"]
    /\ UNCHANGED <<taskVars, orchVars, groupVars, readerVars>>

InitStart ==
    /\ TaskInit
    /\ P = 1
    /\ EnableTts = FALSE
    /\ g \in {[pc |-> "validate", req |-> r, registered |-> FALSE,
               Status |-> "", FailReason |-> "", ttsVoiceCode |-> "",
               ret |-> "none", stage |-> 0] : r \in Requests}

NextStart == S_validate \/ S_register \/ S_voiceClone \/ S_go \/ S_stage

\* the request handler and the goroutine run on, and every call returns
SpecStart == InitStart /\ [][NextStart]_vars /\ WF_vars(NextStart)

\* --------------------------------------------------------------- Text2Speech
\* One Text2Speech of the Aliyun synthesiser: the caller and the goroutine of
\* receiveMessages, which signal by closing the channels synthesisStarted and
\* synthesisComplete.  g.events is what ReadMessage still has to return; when
\* it is used up, or the connection is closed, ReadMessage returns an error
\* (the read deadline of 60 seconds).
MaxMessages == 3

TtsMessages ==
    SeqsUpTo({"SynthesisStarted", "SynthesisCompleted", "binary", "text",
              "malformed", "read err"}, MaxMessages)

\* c.sendMessage(conn, taskId, "StartSynthesis", payload)
StartSynthesis_send ==
    /\ g.pc = "StartSynthesis"
    /\ \E sent \in BOOLEAN :
         g' = IF sent THEN [g EXCEPT !.pc = "<-synthesisStarted"]
              ELSE [g EXCEPT !.pc = "returned", !.ret = "failed to start synthesis"]
    /\ UNCHANGED <<taskVars, orchVars, groupVars, readerVars>>

\* <-synthesisStarted: a receive from a closed channel returns
StartSynthesis_wait ==
    /\ g.pc = "<-synthesisStarted"
    /\ g.synthesisStarted = "closed"
    /\ g' = [g EXCEPT !.pc = "RunSynthesis"]
    /\ UNCHANGED <<taskVars, orchVars, groupVars, readerVars>>

\* c.RunSynthesis(conn, taskId, text)
RunSynthesis ==
    /\ g.pc = "RunSynthesis"
    /\ \E sent \in BOOLEAN :
         g' = IF sent THEN [g EXCEPT !.pc = "StopSynthesis"]
              ELSE [g EXCEPT !.pc = "returned", !.ret = "failed to run synthesis"]
    /\ UNCHANGED <<taskVars, orchVars, groupVars, readerVars>>

\* c.sendMessage(conn, taskId, "StopSynthesis", nil)
StopSynthesis_send ==
    /\ g.pc = "StopSynthesis"
    /\ \E sent \in BOOLEAN :
         g' = IF sent THEN [g EXCEPT !.pc = "<-synthesisComplete"]
              ELSE [g EXCEPT !.pc = "returned", !.ret = "failed to stop synthesis"]
    /\ UNCHANGED <<taskVars, orchVars, groupVars, readerVars>>

\* <-synthesisComplete; return nil
StopSynthesis_wait ==
    /\ g.pc = "<-synthesisComplete"
    /\ g.synthesisComplete = "closed"
    /\ g' = [g EXCEPT !.pc = "returned", !.ret = "nil"]
    /\ UNCHANGED <<taskVars, orchVars, groupVars, readerVars>>

\* what conn.ReadMessage returns next
NextMessage ==
    IF g.events = <<>> \/ g.pc = "returned" THEN "read err" ELSE Head(g.events)

\* one pass of the loop of receiveMessages; leaving it runs the deferred
\* close(synthesisComplete); close of a closed channel panics, and a panic
\* in this goroutine ends the process
receiveMessages ==
    /\ g.receiver = "ReadMessage"
    /\ g.pc # "crashed"
    /\ NextMessage = "SynthesisStarted" => g.pc # "StartSynthesis"
    /\ \E m \in {NextMessage} :
         g' = IF m \in {"read err", "malformed", "SynthesisCompleted"}
              THEN [g EXCEPT !.events = IF @ = <<>> THEN @ ELSE Tail(@),
                             !.receiver = "returned",
                             !.synthesisComplete = "closed"]
              ELSE IF m = "SynthesisStarted" /\ g.synthesisStarted = "closed"
              THEN [g EXCEPT !.events = Tail(@), !.receiver = "panic",
                             !.pc = "crashed"]
              ELSE IF m = "SynthesisStarted"
              THEN [g EXCEPT !.events = Tail(@), !.synthesisStarted = "closed"]
              ELSE [g EXCEPT !.events = Tail(@),
                             !.written = IF m = "binary" THEN @ + 1 ELSE @]
    /\ UNCHANGED <<taskVars, orchVars, groupVars, readerVars>>

InitSynthesis ==
    /\ TaskInit
    /\ P = 1
    /\ EnableTts = TRUE
    /\ g \in {[pc |-> "StartSynthesis", receiver |-> "ReadMessage", events |-> ev,
               synthesisStarted |-> "open", synthesisComplete |-> "open",
               written |-> 0, ret |-> "none"] : ev \in TtsMessages}

NextSynthesis ==
    \/ StartSynthesis_send
    \/ StartSynthesis_wait
    \/ RunSynthesis
    \/ StopSynthesis_send
    \/ StopSynthesis_wait
    \/ receiveMessages

\* the caller and the receiver goroutine both run when they can
SpecSynthesis == InitSynthesis /\ [][NextSynthesis]_vars /\ WF_vars(NextSynthesis)

\* ------------------------------------------------------------ bilingual dub
\* The bilingual file of one segment from generateTimestamps to the texts
\* srtFileToSpeech hands to Text2Speech.  A file is the sequence of its
\* lines: the number of a block, its timestamp line, a text line or an
\* empty line.
MaxBlocks == 2

OriginSentences == {"hello", "world"}
TargetSentences == {"bonjour", "monde"}

DubBlocks ==
    UNION {[1..n -> [OriginLanguageSentence : OriginSentences,
                     TargetLanguageSentence : TargetSentences]] : n \in 1..MaxBlocks}

\* the four or five lines generateTimestamps writes for one block
BilingualLines(srtBlock, index, resultType) ==
    <<[k |-> "num", v |-> ToString(index)],
      [k |-> "ts", v |-> ToString(index)]>>
    \o (IF resultType = "bilingual_translation_on_top"
        THEN <<[k |-> "text", v |-> srtBlock.TargetLanguageSentence],
               [k |-> "text", v |-> srtBlock.OriginLanguageSentence]>>
        ELSE <<[k |-> "text", v |-> srtBlock.OriginLanguageSentence],
               [k |-> "text", v |-> srtBlock.TargetLanguageSentence]>>)
    \o <<[k |-> "blank", v |-> ""]>>

RECURSIVE WrittenFile(_, _, _)
WrittenFile(srtBlocks, i, resultType) ==
    IF i > Len(srtBlocks) THEN <<>>
    ELSE BilingualLines(srtBlocks[i], i, resultType)
         \o WrittenFile(srtBlocks, i + 1, resultType)

\* generateTimestamps: the loop that writes the bilingual file
B_write ==
    /\ g.pc = "write"
    /\ g' = [g EXCEPT !.pc = "merge",
                      !.file = WrittenFile(g.srtBlocks, 1, g.resultType)]
    /\ UNCHANGED <<taskVars, orchVars, groupVars, readerVars>>

\* util.MergeSrtFiles of the one segment: the blocks are numbered from 1 on,
\* as they already are; splitSrt then sets TtsSourceFilePath to this file
B_merge ==
    /\ g.pc = "merge"
    /\ g' = [g EXCEPT !.pc = "parse"]
    /\ UNCHANGED <<taskVars, orchVars, groupVars, readerVars>>

\* the first line after line i that \s+ does not swallow, 0 when there is none
FirstText(lines, i) ==
    IF \E j \in (i + 1)..Len(lines) : lines[j].k # "blank"
    THEN CHOOSE j \in (i + 1)..Len(lines) :
            /\ lines[j].k # "blank"
            /\ \A h \in (i + 1)..(j - 1) : lines[h].k = "blank"
    ELSE 0

RECURSIVE parseSRT(_, _)
\* the matches of (ts) --> (ts)\s+(.+?)\n from line i on: the timestamp line
\* and the first line after it that is not empty, up to its line end
parseSRT(lines, i) ==
    IF i > Len(lines) THEN <<>>
    ELSE IF lines[i].k = "ts" /\ FirstText(lines, i) # 0
    THEN <<[Time |-> lines[i].v, Text |-> lines[FirstText(lines, i)].v]>>
         \o parseSRT(lines, FirstText(lines, i) + 1)
    ELSE parseSRT(lines, i + 1)

\* subtitles, err := parseSRT(stepParam.TtsSourceFilePath)
B_parse ==
    /\ g.pc = "parse"
    /\ g' = [g EXCEPT !.pc = "speech", !.subtitles = parseSRT(g.file, 1)]
    /\ UNCHANGED <<taskVars, orchVars, groupVars, readerVars>>

\* s.TtsClient.Text2Speech(sub.Text, voiceCode, outputFile) for the next block
B_speech ==
    /\ g.pc = "speech"
    /\ g' = IF Len(g.spoken) < Len(g.subtitles)
            THEN [g EXCEPT !.spoken = Append(@, g.subtitles[Len(@) + 1].Text)]
            ELSE [g EXCEPT !.pc = "done"]
    /\ UNCHANGED <<taskVars, orchVars, groupVars, readerVars>>

InitBilingual ==
    /\ TaskInit
    /\ P = 1
    /\ EnableTts = TRUE
    /\ g \in {[pc |-> "write", srtBlocks |-> b, resultType |-> t, file |-> <<>>,
               subtitles |-> <<>>, spoken |-> <<>>] :
                  b \in DubBlocks,
                  t \in {"bilingual_translation_on_top",
                         "bilingual_translation_on_bottom"}}

NextBilingual == B_write \/ B_merge \/ B_parse \/ B_speech

SpecBilingual == InitBilingual /\ [][NextBilingual]_vars

\* ------------------------------------------------------------------ claims
IsPrefix(s, t) == Len(s) <= Len(t) /\ \A k \in 1..Len(s) : s[k] = t[k]

Last(s) == s[Len(s)]

\* the error string each stage hands to the orchestrator
StageError(stage) ==
    CASE stage = "acquire" -> {"linkToFile error"}
      [] stage = "fanout" -> {"audioToSubtitle splitAudio error",
                              "audioToSubtitle audioToSrt error"}
      [] stage = "assemble" -> {"audioToSubtitle splitSrt error"}
      [] stage = "tts" -> {"srtFileToSpeech error"}
      [] stage = "embed" -> {"embedSubtitles error"}
      [] stage = "publish" -> {"uploadSubtitles ReplaceFileContent err"}

RunningWorkers == {i \in Segs : Running(i)}

\* C1: a stage that returns an error ends the task Failed with that stage's
\* error string as FailReason; once a stage has failed no further stage is
\* started, and every stage is started at most once, in pipeline order.
C1_StageErrorHalts ==
    /\ [](IsPrefix(stages, StageOrder))
    /\ [](taskErr # "" => taskErr \in StageError(Last(stages)))
    /\ [](taskErr # "" /\ opc = "done" =>
            Status = "Failed" /\ FailReason = taskErr)
    /\ [][taskErr # "" => stages' = stages /\ taskErr' = taskErr]_vars

C1_Witness ==
    /\ opc = "done"
    /\ Status = "Failed"
    /\ FailReason = "srtFileToSpeech error"
    /\ stages = <<"acquire", "fanout", "assemble", "tts">>

\* C2: Status is Processing, Success or Failed, and once it is Success or
\* Failed no step of the orchestrator or of a worker changes it.
C2_TerminalAbsorbing ==
    /\ [](Status \in {"Processing", "Success", "Failed"})
    /\ [][Status # "Processing" => Status' = Status]_vars

C2_Witness == opc = "done" /\ Status = "Success" /\ N = MaxSeg

\* C3: ProcessPct never decreases, and it is 100 once the task has completed
\* with Success.
C3_ProgressMonotone ==
    /\ [][ProcessPct' >= ProcessPct]_vars
    /\ [](opc = "done" /\ Status = "Success" => ProcessPct = 100)

\* C4: a task in which a worker goroutine panicked ends Failed.
C4_WorkerPanicFails ==
    (opc = "done" /\ \E i \in Segs : w[i].panicked) => Status = "Failed"

\* C5: a Failed task record carries a non-empty FailReason.
C5_FailedHasReason == Status = "Failed" => FailReason # ""

\* C6: a status query that saw Status = Success also sees progress 100.
C6_ConsistentSnapshot ==
    (rStatus = "Success" /\ rpc \in {"infos", "done"}) => rPct = 100

\* C7: at most P workers of the task run at any time.
C7_AtMostPWorkers == Cardinality(RunningWorkers) <= P /\ sem <= P

C7_Witness ==
    /\ opc = "audioToSrt"
    /\ next <= N
    /\ Cardinality(RunningWorkers) = P

StartsSubStep(i) ==
    /\ w[i].pc \in {"asr", "split", "retime"}
    /\ w'[i].pc # w[i].pc

\* C8: once the shared context is cancelled no worker starts a further
\* sub-step (a Transcription call, splitTextAndTranslate, generateTimestamps).
C8_NoSubStepAfterCancel ==
    [][cancelled => \A i \in Segs : ~StartsSubStep(i)]_vars

\* C9: per segment Transcription is called at most 3 times, no call follows
\* a call that returned no error, and the worker returns the Transcription
\* error exactly when all 3 calls returned an error.
C9_AsrRetry ==
    /\ [](\A i \in Segs : w[i].calls <= AsrAttempts)
    /\ [][\A i \in Segs :
            (w[i].pc = "asrChk" /\ w[i].td # -1) => w'[i].pc # "asr"]_vars
    /\ [][\A i \in Segs :
            (w[i].pc = "asrPost" /\ w'[i].pc # "asrPost") =>
               (w'[i].res = "Transcription err"
                  <=> w[i].asrErrs = AsrAttempts)]_vars

C11_EmptyTextProceeds ==
    \A i \in Segs :
        w[i].split = "empty" => w[i].res # "splitTextAndTranslate err"

\* the blocks of the three files written for the segment
RetimeFiles == <<g.bilingual, g.mixed, g.short>>

\* sentence k was handed to getSentenceTimestamps and was not timed
FailedRetiming(k) == g.sentences[k] # <<>> /\ g.Timestamp[k] = <<>>

\* C12: a sentence that fails retiming is skipped: when generateTimestamps
\* has returned, none of the segment's three files (bilingual, mixed, short
\* origin) holds a block of that sentence.
C12_SkippedEmitsNothing ==
    g.pc = "returned" =>
        \A k \in 1..Len(g.sentences) :
            FailedRetiming(k) =>
                \A f \in 1..3 : \A n \in 1..Len(RetimeFiles[f]) :
                    RetimeFiles[f][n].Text[2] # k

\* the blocks of a file that carry a timestamp, in the order of the file
TimedBlocks(file) == SelectSeq(file, LAMBDA b : b.Timestamp # <<>>)

\* C13: in the bilingual file and in the short origin file of a segment the
\* blocks are numbered 1..M in order, and the blocks that carry a timestamp
\* satisfy start <= end, and end <= the start of the next such block.
C13_OrderedBlocks ==
    g.pc = "returned" =>
        \A file \in {g.bilingual, g.short} :
            /\ \A n \in 1..Len(file) : file[n].Index = n
            /\ \A n \in 1..Len(TimedBlocks(file)) :
                  /\ TimedBlocks(file)[n].Timestamp[1] <=
                         TimedBlocks(file)[n].Timestamp[2]
                  /\ n < Len(TimedBlocks(file)) =>
                         TimedBlocks(file)[n].Timestamp[2] <=
                             TimedBlocks(file)[n + 1].Timestamp[1]

\* the sentences that were timed, in order: their spans within the segment
EmittedSpans == SelectSeq(g.span, LAMBDA s : s # <<>>)

\* C14: in a segment of a word-based language every emitted sentence starts
\* at or after the end of the sentence emitted before it.
C14_StartAfterPreviousEnd ==
    g.language = "word" =>
        \A n \in 1..(Len(EmittedSpans) - 1) :
            EmittedSpans[n][2] <= EmittedSpans[n + 1][1]

\* no two neighbours of the matched words have Num and Num + 1
NoRun(sw) == \A n \in 1..(Len(sw) - 1) : sw[n + 1].Num # sw[n].Num + 1

\* the sentence generateTimestamps is about to time is of a word-based
\* language and its matched words hold no run
AtSentenceWithoutRun ==
    /\ g.pc = "loop"
    /\ g.k <= Len(g.sentences)
    /\ g.language = "word"
    /\ g.sentences[g.k] # <<>>
    /\ g.words # <<>>
    /\ NoRun(MatchWords(g.words, g.sentences[g.k], g.lastTs))

\* C15: a sentence of a word-based language whose matched words hold no run
\* of +1 consecutive Num is omitted (it gets no timestamp and no short
\* block), and the run over the segment goes on.
C15_NoRunOmitted ==
    [][AtSentenceWithoutRun =>
          /\ g'.pc = "loop"
          /\ g'.Timestamp[g.k] = <<>>
          /\ g'.shortOriginSrtMap[g.k] = <<>>]_vars

\* C16: every timestamp written for a sentence of segment Num is the time of
\* the sentence within the segment plus (Num - 1) times the length of a
\* segment, for the block of the sentence and for its short block when the
\* sentence is one line.
C16_OffsetAdded ==
    \A k \in 1..Len(g.span) :
        g.span[k] # <<>> =>
            /\ g.Timestamp[k] = <<g.span[k][1] + tsOffset(g.Num),
                                  g.span[k][2] + tsOffset(g.Num)>>
            /\ Len(g.shortOriginSrtMap[k]) = 1 =>
                  g.shortOriginSrtMap[k][1].Timestamp =
                      <<g.span[k][1] + tsOffset(g.Num),
                        g.span[k][2] + tsOffset(g.Num)>>

\* the run is over one sentence of different words of a word-based language,
\* every one of them recognised in order, at two words per line or more, and
\* the sentence has been through the splitter
SplitRecognised ==
    /\ g.pc \in {"loop", "returned"}
    /\ g.language = "word"
    /\ g.W >= 2
    /\ Len(g.sentences) = 1
    /\ g.k = 2
    /\ Len(g.words) >= 1
    /\ Len(g.words) = Len(g.sentences[1])
    /\ \A n \in 1..Len(g.words) : EqualFold(g.words[n].Text, g.sentences[1][n])
    /\ \A n, m \in 1..Len(g.words) :
          EqualFold(g.words[n].Text, g.words[m].Text) => n = m

\* the words of the short blocks of sentence k, block by block
LineSizes(k) ==
    [n \in 1..Len(g.shortOriginSrtMap[k]) |->
        Len(g.shortOriginSrtMap[k][n].OriginLanguageSentence)]

\* L words in lines closed after every width words: full lines and the rest
Lines(L, width) ==
    [n \in 1..((L + width - 1) \div width) |->
        IF n * width <= L THEN width ELSE L - (n - 1) * width]

\* the smallest k of 2..5 with L <= k * W, or 0
Parts(L, W) ==
    IF \E k \in 2..5 : L <= k * W
    THEN CHOOSE k \in 2..5 : L <= k * W /\ \A h \in 2..(k - 1) : L > h * W
    ELSE 0

\* the width as the claim has it: ceil(L / k) + 1
CeilWidth(L, W) ==
    IF Parts(L, W) = 0 THEN W
    ELSE ((L + Parts(L, W) - 1) \div Parts(L, W)) + 1

\* the width with the quotient rounded down: floor(L / k) + 1
FloorWidth(L, W) ==
    IF Parts(L, W) = 0 THEN W ELSE (L \div Parts(L, W)) + 1

\* C17, as claimed: a sentence of L <= W words is one block; a longer one is
\* closed after every w = ceil(L / k) + 1 words, k the smallest of 2..5 with
\* L <= k * W, so that L = 13, W = 12 gives blocks of 8 and 5 words.
C17_CeilWidth ==
    SplitRecognised =>
        LineSizes(1) = IF Len(g.words) <= g.W THEN <<Len(g.words)>>
                       ELSE Lines(Len(g.words), CeilWidth(Len(g.words), g.W))

\* C17, amended: a sentence of L <= W words is one block; a longer one is
\* closed after every w = floor(L / k) + 1 words, k the smallest of 2..5
\* with L <= k * W (w = W when there is none), so that L = 13, W = 12 gives
\* blocks of 7 and 6 words.
C17_FloorWidth ==
    SplitRecognised =>
        LineSizes(1) = IF Len(g.words) <= g.W THEN <<Len(g.words)>>
                       ELSE Lines(Len(g.words), FloorWidth(Len(g.words), g.W))

\* a sentence of 13 words at 12 words per line has been split in 7 and 6
C17_Witness ==
    /\ SplitRecognised
    /\ Len(g.words) = 13
    /\ g.W = 12
    /\ LineSizes(1) = <<7, 6>>

\* the originals of the short blocks of sentence k, one after the other
ShortOriginals(k) ==
    Flatten([n \in 1..Len(g.shortOriginSrtMap[k]) |->
                g.shortOriginSrtMap[k][n].OriginLanguageSentence])

\* C18: for every retimed sentence the originals of its short blocks, put
\* together, are the words of the sentence's original: none dropped, none
\* twice, none out of order, none changed.
C18_ConcatEqualsOriginal ==
    \A k \in 1..Len(g.span) :
        g.span[k] # <<>> => ShortOriginals(k) = g.sentences[k]

\* C19: when TTS is enabled, the TTS stage is entered with a subtitle file to
\* read, whatever the result type.
C19_TtsInputDefined ==
    (EnableTts /\ opc = "srtFileToSpeech") => TtsSourceFilePath # ""

C21_LeadingSilence ==
    (g.pc = "blocks" /\ g.i >= 1) =>
        IF g.subtitles[1].Start > 0
        THEN g.audioFiles[1] =
                 [kind |-> "silence", us |-> 1000 * g.subtitles[1].Start]
        ELSE \A n \in 1..Len(g.audioFiles) : g.audioFiles[n].kind # "silence"

RECURSIVE TotalLength(_)
\* the length in microseconds of the concatenation of the files
TotalLength(files) ==
    IF files = <<>> THEN 0 ELSE Head(files).us + TotalLength(Tail(files))

\* start <= end for every block and end <= the start of the next block
NonDecreasing(subtitles) ==
    \A n \in 1..Len(subtitles) :
        /\ subtitles[n].Start <= subtitles[n].End
        /\ n < Len(subtitles) => subtitles[n].End <= subtitles[n + 1].Start

\* C22: when srtFileToSpeech has returned without error for an SRT of
\* non-decreasing block times, the files it concatenated (the leading
\* silence and every adjusted block) are together at least as long as the
\* end of the last block.
C22_OutputCoversSpan ==
    (g.pc = "returned" /\ g.res = "nil" /\ g.subtitles # <<>> /\
     NonDecreasing(g.subtitles)) =>
        TotalLength(g.audioFiles) >= 1000 * g.subtitles[Len(g.subtitles)].End

\* C23: a run of type "all" over a video that is read as narrower than high
\* and returns without error has done the vertical burn-in.
C23_VerticalStillDone ==
    (g.pc = "returned" /\ g.res = "nil" /\ g.type = "all" /\
     g.width < g.height) =>
        "vertical" \in g.rendered

\* C24, as claimed: an SRT time written as an ASS time and read back is the
\* same time.
C24_RoundTrip ==
    g.pc = "read" => g.back = parseSrtTime(g.srt)

\* C24, amended: an SRT time written as an ASS time and read back is the
\* time cut down to a whole hundredth of a second, so a time of whole
\* hundredths comes back the same.
C24_RoundTripHundredths ==
    g.pc = "read" => g.back = 10 * (parseSrtTime(g.srt) \div 10)

\* 01:59:59,456 has come back as 01:59:59,450
C24_Witness ==
    /\ g.pc = "read"
    /\ g.srt = [h |-> 1, m |-> 59, s |-> 59, ms |-> 456]
    /\ g.back = parseSrtTime(g.srt) - 6

\* C25: once the ten-second wait for task-started has expired, Transcription
\* still returns: the receiver reads on to task-finished or task-failed and
\* is not held up by a task-started that comes late.
C25_TimeoutNotFatal ==
    g.timedOut ~> (g.pc = "returned")

RECURSIVE Recognised(_, _)
\* the line indices at which the loop of isValidSplitContent finds the number
\* of a block, from line index i on
Recognised(lines, i) ==
    IF i > Len(lines) THEN {}
    ELSE IF lines[i].k = "int" /\ i + 2 <= Len(lines)
         THEN {i} \cup Recognised(lines, i + 3)
    ELSE IF lines[i].k = "int" THEN {}
    ELSE Recognised(lines, i + 1)

\* C26: an accepted payload that is neither empty nor the no-text marker has
\* at least one block, and every block found has three non-blank lines of
\* which the first is a positive integer.
C26_AcceptedIsWellFormed ==
    (g.pc = "validated" /\ g.valid /\ g.splitContent # <<>> /\ ~HasSentinel(g.splitContent)) =>
        /\ Recognised(g.splitContent, 1) # {}
        /\ \A i \in Recognised(g.splitContent, 1) :
             /\ g.splitContent[i].v > 0
             /\ g.splitContent[i + 1].k # "blank"
             /\ g.splitContent[i + 2].k # "blank"

\* C27: a task record whose Status is Success has at least one subtitle
\* descriptor, whichever result type was asked for (one descriptor for the
\* origin language alone, two with the target language, three when bilingual).
C27_SuccessHasSubtitles ==
    Status = "Success" => SubtitleInfos >= 1

\* a task of the origin language alone has succeeded with its one descriptor
C27_Witness ==
    Status = "Success" /\ SubtitleInfos = 1 /\ stepInfos = 1

\* C28: when generateTimestamps returns, on the no-text marker, on an error
\* or at its end, none of the files it opened is left open.
C28_FilesClosed ==
    g.pc = "returned" => g.open = {}

\* the short blocks of the k-th sentence lie in order between from and the
\* sentence's end, each with start <= end
ShortInside(blocks, from, end) ==
    \A n \in 1..Len(blocks) :
        /\ blocks[n].Timestamp[1] <= blocks[n].Timestamp[2]
        /\ blocks[n].Timestamp[1] >= from
        /\ n > 1 => blocks[n].Timestamp[1] >= blocks[n - 1].Timestamp[2]
        /\ blocks[n].Timestamp[2] <= end

\* C29: every short block emitted for a sentence has start <= end, starts no
\* earlier than the sentence's start, the end of the line before it and
\* lastTs, and ends no later than the sentence's end.
C29_ShortBlocksInside ==
    [][(g.pc = "loop" /\ g'.pc = "loop" /\ g'.span[g.k] # <<>>) =>
          ShortInside(g'.shortOriginSrtMap[g.k],
                      Max2(g'.Timestamp[g.k][1],
                           FormatTime(g.lastTs + tsOffset(g.Num))),
                      g'.Timestamp[g.k][2])]_vars

\* the ASR words that a token of the sentence can be matched with
Candidates(token, lastTs) ==
    {n \in 1..Len(g.words) :
        EqualFold(g.words[n].Text, token) /\ g.words[n].Start >= lastTs}

\* the word a token is matched with: the earliest candidate
Matched(token, lastTs) ==
    g.words[CHOOSE n \in Candidates(token, lastTs) :
                \A m \in Candidates(token, lastTs) : n <= m]

\* every token of the k-th sentence has a candidate, and the matched words
\* are numbered Num, Num + 1, ...
AllMatchedInRun(k, lastTs) ==
    /\ g.language = "word"
    /\ Len(g.sentences[k]) >= 1
    /\ \A t \in 1..Len(g.sentences[k]) : Candidates(g.sentences[k][t], lastTs) # {}
    /\ \A t \in 1..(Len(g.sentences[k]) - 1) :
          Matched(g.sentences[k][t + 1], lastTs).Num =
              Matched(g.sentences[k][t], lastTs).Num + 1

\* C30: in a word-based language, a sentence whose tokens all match an ASR
\* word that starts at or after lastTs, the matched words numbered
\* consecutively, is emitted from the start of the first matched word to the
\* end of the last, and lastTs becomes that end.
C30_FullRunSpan ==
    [][(g.pc = "loop" /\ g.k <= Len(g.sentences) /\ AllMatchedInRun(g.k, g.lastTs)) =>
          /\ g'.span[g.k] =
                <<Matched(g.sentences[g.k][1], g.lastTs).Start,
                  Matched(g.sentences[g.k][Len(g.sentences[g.k])], g.lastTs).End>>
          /\ g'.lastTs =
                Matched(g.sentences[g.k][Len(g.sentences[g.k])], g.lastTs).End
          /\ g'.k = g.k + 1]_vars

\* the words 1..5 were recognised in order and the sentence of the five was
\* emitted from the start of the first to the end of the fifth
C30_Witness ==
    /\ g.pc = "loop"
    /\ g.k = 2
    /\ Len(g.words) = 5
    /\ AllMatchedInRun(1, 0)
    /\ g.span[1] = <<g.words[1].Start, g.words[5].End>>
    /\ g.lastTs = g.words[5].End

\* the words at the indices S, in order, are numbered Num, Num + 1, ...
IsChain(ws, S) ==
    \A i \in S : \A j \in S :
        (j < i /\ \A h \in S : ~(j < h /\ h < i)) => ws[i].Num = ws[j].Num + 1

\* the length of a longest such subsequence
MaxChain(ws) ==
    CHOOSE n \in 0..Len(ws) :
        /\ \E S \in SUBSET (1..Len(ws)) : IsChain(ws, S) /\ Cardinality(S) = n
        /\ \A S \in SUBSET (1..Len(ws)) : IsChain(ws, S) => Cardinality(S) <= n

\* C31: for a non-empty list of collected words jumpFindMaxIncreasingSubArray
\* returns a subsequence numbered Num, Num + 1, ..., as long as the longest
\* such subsequence of the list, with the indices of its first and last word.
C31_LongestChain ==
    (g.pc = "found" /\ g.sentenceWords # <<>>) =>
        /\ Len(g.found[3]) = MaxChain(g.sentenceWords)
        /\ \A n \in 1..(Len(g.found[3]) - 1) :
              g.found[3][n + 1].Num = g.found[3][n].Num + 1
        /\ g.found[1] \in 0..(Len(g.sentenceWords) - 1)
        /\ g.found[2] \in 0..(Len(g.sentenceWords) - 1)
        /\ g.found[3][1] = g.sentenceWords[g.found[1] + 1]
        /\ g.found[3][Len(g.found[3])] = g.sentenceWords[g.found[2] + 1]

\* C32: a line without alphabetic characters is cut into n chunks of at most
\* 10 characters whose concatenation is the line, and chunk i (from 0) is
\* shown from start + i*T/n to start + (i+1)*T/n with T = end - start, in the
\* hundredths of a second of the ASS form: each chunk ends where the next
\* begins, the first begins at the block's start and the last ends at the
\* block's end.
C32_ChunksCoverSlot ==
    g.pc = "written" =>
        LET n == Len(g.dialogues)
            T == g.endTime - g.startTime
        IN /\ n >= 1
           /\ Flatten([c \in 1..n |-> g.dialogues[c].line]) = g.content
           /\ \A c \in 1..n :
                 /\ Len(g.dialogues[c].line) \in 1..10
                 /\ g.dialogues[c].Start =
                       formatTimestamp(g.startTime + Prorated(c - 1, T, n))
                 /\ g.dialogues[c].End =
                       formatTimestamp(g.startTime + Prorated(c, T, n))
                 /\ AssTime(g.dialogues[c].Start) <= AssTime(g.dialogues[c].End)
                 /\ c < n => g.dialogues[c].End = g.dialogues[c + 1].Start
           /\ g.dialogues[1].Start = formatTimestamp(g.startTime)
           /\ g.dialogues[n].End = formatTimestamp(g.endTime)

\* worker i stands at the test after a sub-step of its own that failed
OwnFailure(i) ==
    \/ w[i].pc = "asrPost" /\ w[i].td = -1 /\ w[i].asrErrs = AsrAttempts
    \/ w[i].pc = "splitChk" /\ w[i].split # "ok"
    \/ w[i].pc = "retChk" /\ w[i].noTs = "none"

\* C33: whatever its peers do meanwhile, a worker whose own sub-step failed
\* (the three ASR attempts, split and translate, or the retiming) returns
\* that failure and does not go on to the next sub-step.
C33_OwnFailureReturned ==
    [][\A i \in 1..MaxSeg :
          (OwnFailure(i) /\ w'[i] # w[i]) =>
              /\ w'[i].pc = "done"
              /\ w'[i].res \in {"Transcription err", "splitTextAndTranslate err",
                                "generateTimestamps err"}]_vars

\* C34: a task record that StartSubtitleTask has put into the registry
\* reaches Success or Failed.
C34_RegisteredTaskEnds ==
    g.registered ~> (g.Status \in {"Success", "Failed"})

\* C35: the fan-out stage ends for every translate_parallel_num that the
\* configuration accepts: the spawning loop gets every worker started, every
\* worker frees its slot, and the join returns.
C35_FanoutTerminates ==
    (opc = "audioToSrt") ~> (opc # "audioToSrt")

\* C36: getSentenceTimestamps never reads the list of ASR words out of its
\* bounds, whatever the list (the empty one included) and the sentence: no
\* run of generateTimestamps ends in the panic of an index out of range.
C36_IndexInRange ==
    g.pc # "panic"

\* C37: once the loop of receiveMessages has ended, Text2Speech returns, and
\* a SynthesisStarted that comes twice does not bring the receiver down.
C37_Text2SpeechReturns ==
    /\ [](g.receiver # "panic")
    /\ (g.receiver = "returned") ~> (g.pc = "returned")

\* C38: Transcription returns a nil error only for a task that ended with
\* task-finished and whose run-task, audio and finish-task sends all went
\* through.
C38_NilOnlyAfterFinished ==
    (g.pc = "returned" /\ g.ret = "nil") =>
        (g.last = "task-finished" /\ g.logged = {})

\* C39: in both bilingual layouts the text handed to Text2Speech for each
\* block is the block's target-language sentence.
C39_TargetIsSpoken ==
    g.pc = "done" =>
        /\ Len(g.spoken) = Len(g.srtBlocks)
        /\ \A i \in 1..Len(g.spoken) :
              g.spoken[i] = g.srtBlocks[i].TargetLanguageSentence

====
